---- MODULE Spec2Model ----
(***************************************************************************)
(* Verification model of the quaternion serial pipeline of usart_trams:    *)
(*   - SerialManager          (src/serial_manager.py)                      *)
(*   - QuaternionProcessor    (src/quaternion_processor.py)                *)
(*   - ComplementaryFilter /  AdaptiveComplementaryFilter                  *)
(*                            (src/complementary_filter.py)                *)
(*   - the adaptive rate estimator of Quaternion3DVisualizer               *)
(*                            (quaternion_3d_visualizer.py)                *)
(*                                                                         *)
(* Python floats are modelled as fixed-point integers with Scale units per *)
(* 1.0 (one unit = 1e-6).  TLC integers are 32 bit wide, so products and   *)
(* quotients are computed digit-wise (Mul, Div) and never overflow for the *)
(* magnitudes the model uses.  Angles are in micro-radians.  The special   *)
(* float values (NaN, +/-Infinity, and finite values whose square          *)
(* overflows a double) are modelled as distinct codes, see FNaN below.     *)
(***************************************************************************)
EXTENDS Integers, Sequences, FiniteSets, TLC

(***************************************************************************)
(* Fixed-point arithmetic                                                  *)
(***************************************************************************)
\* One fixed-point unit is 1e-6; Mul and Div work on digits of base 1000.
Base == 10 ^ 3
Scale == Base * Base
Pi == 3141593
HalfPi == 1570796
TwoPi == 6283185

Abs(a) == IF a < 0 THEN -a ELSE a
Sgn(a) == IF a < 0 THEN -1 ELSE IF a > 0 THEN 1 ELSE 0
Min(a, b) == IF a < b THEN a ELSE b
Max(a, b) == IF a > b THEN a ELSE b

\* A local name: Bind(v, LAMBDA x : e) is e with x standing for the value v.
Bind(v, Op(_)) == Op(v)

\* a * b for non-negative fixed-point a, b, rounded to the nearest unit.
MulN(a, b) ==
    LET a1 == a \div Base
        a0 == a % Base
        b1 == b \div Base
        b0 == b % Base
    IN  a1 * b1 + (a1 * b0 + a0 * b1 + (a0 * b0 + 500000) \div Base) \div Base

Mul(a, b) == Sgn(a) * Sgn(b) * MulN(Abs(a), Abs(b))

\* floor(a / b) in fixed point for a >= 0, b > 0 (long division, base 100).
DivFloorN(a, b) ==
    LET q0 == a \div b
        r0 == a % b
        q1 == (r0 * 100) \div b
        r1 == (r0 * 100) % b
        q2 == (r1 * 100) \div b
        r2 == (r1 * 100) % b
        q3 == (r2 * 100) \div b
    IN  q0 * Scale + q1 * 10000 + q2 * 100 + q3

\* a / b in fixed point for a >= 0, b > 0, rounded to the nearest unit.
DivN(a, b) ==
    LET q0 == a \div b
        r0 == a % b
        q1 == (r0 * 100) \div b
        r1 == (r0 * 100) % b
        q2 == (r1 * 100) \div b
        r2 == (r1 * 100) % b
        q3 == (r2 * 100) \div b
        r3 == (r2 * 100) % b
    IN  q0 * Scale + q1 * 10000 + q2 * 100 + q3 + (IF 2 * r3 >= b THEN 1 ELSE 0)

Div(a, b) == Sgn(a) * Sgn(b) * DivN(Abs(a), Abs(b))

\* math.sqrt: Newton's iteration from above; the largest r with r*r <= n.
RECURSIVE SqrtIter(_, _)
SqrtIter(n, r) ==
    LET r1 == (r + DivFloorN(n, r)) \div 2
    IN  IF r1 >= r THEN r ELSE SqrtIter(n, r1)

SqrtSmall(n) == SqrtIter(n, (n + Scale) \div 2 + 1)

\* Above 16.0 the root is taken of n / 100 and multiplied by 10.
Sqrt(n) ==
    IF n <= 0 THEN 0
    ELSE IF n > 16 * Scale THEN 10 * SqrtSmall(n \div 100)
    ELSE SqrtSmall(n)

\* An angle reduced to [-Pi, Pi).
ReduceAngle(a) == ((a + Pi) % TwoPi) - Pi

\* Taylor polynomials of sin and cos on [-Pi/2, Pi/2], in Horner form.
SinPoly(x) ==
    LET x2 == Mul(x, x)
        t5 == Scale - Mul(x2, Scale) \div 110
        t4 == Scale - Mul(x2, t5) \div 72
        t3 == Scale - Mul(x2, t4) \div 42
        t2 == Scale - Mul(x2, t3) \div 20
        t1 == Scale - Mul(x2, t2) \div 6
    IN  Mul(x, t1)

CosPoly(x) ==
    LET x2 == Mul(x, x)
        t6 == Scale - Mul(x2, Scale) \div 132
        t5 == Scale - Mul(x2, t6) \div 90
        t4 == Scale - Mul(x2, t5) \div 56
        t3 == Scale - Mul(x2, t4) \div 30
        t2 == Scale - Mul(x2, t3) \div 12
    IN  Scale - Mul(x2, t2) \div 2

\* The angle of [-Pi/2, Pi/2] with the same sine as the reduced angle m.
Fold(m) == IF m > HalfPi THEN Pi - m ELSE IF m < -HalfPi THEN -Pi - m ELSE m

Sin(a) == SinPoly(Fold(ReduceAngle(a)))

Cos(a) ==
    LET m == ReduceAngle(a)
    IN  (IF m > HalfPi \/ m < -HalfPi THEN -1 ELSE 1) * CosPoly(Fold(m))

\* atan(2^-(i-1)) in micro-radians, and the powers of two, for CORDIC.
AtanTable == <<785398, 463648, 244979, 124355, 62419, 31240, 15624, 7812, 3906, 1953,
               977, 488, 244, 122, 61, 31, 15, 8, 4, 2, 1>>
Pow2 == <<1, 2, 4, 8, 16, 32, 64, 128, 256, 512, 1024, 2048, 4096, 8192, 16384,
          32768, 65536, 131072, 262144, 524288, 1048576>>
CordicRange == 2 ^ 29

\* CORDIC in vectoring mode: the angle of the vector (x, y), x > 0.
RECURSIVE Cordic(_, _, _, _)
Cordic(x, y, z, i) ==
    IF i > Len(AtanTable) \/ y = 0 THEN z
    ELSE IF y > 0
         THEN Cordic(x + y \div Pow2[i], y - x \div Pow2[i], z + AtanTable[i], i + 1)
         ELSE Cordic(x + (-y) \div Pow2[i], y + x \div Pow2[i], z - AtanTable[i], i + 1)

\* math.atan2 / np.arctan2
Atan2(y, x) ==
    LET pre == Max(1, CordicRange \div Max(1, Max(Abs(x), Abs(y))))
    IN  IF x = 0 /\ y = 0 THEN 0
        ELSE IF x = 0 THEN (IF y > 0 THEN HalfPi ELSE -HalfPi)
        ELSE Bind(Cordic(Abs(x) * pre, (IF x > 0 THEN y ELSE Abs(y)) * pre, 0, 1),
                  LAMBDA c : IF x > 0 THEN c ELSE IF y >= 0 THEN Pi - c ELSE -Pi + c)

\* np.arccos and math.asin on [-1, 1]
Arccos(d) == Atan2(Sqrt(Scale - Mul(d, d)), d)
Asin(s) == Atan2(s, Sqrt(Scale - Mul(s, s)))

\* sum, np.mean and np.var (population variance) of a sequence
RECURSIVE SeqSum(_)
SeqSum(s) == IF s = <<>> THEN 0 ELSE s[1] + SeqSum(Tail(s))

Mean(s) == SeqSum(s) \div Len(s)

Var(s) ==
    LET m == Mean(s)
    IN  SeqSum([i \in 1..Len(s) |-> Mul(s[i] - m, s[i] - m)]) \div Len(s)

\* list(d)[-n:] and deque(maxlen = n).append
LastN(s, n) == IF Len(s) <= n THEN s ELSE SubSeq(s, Len(s) - n + 1, Len(s))
AppendMax(s, e, n) == LastN(Append(s, e), n)

(***************************************************************************)
(* class Quaternion (quaternion_processor.py)                              *)
(***************************************************************************)
Quat(w, x, y, z) == [w |-> w, x |-> x, y |-> y, z |-> z]
Identity == Quat(Scale, 0, 0, 0)
ZeroQuat == Quat(0, 0, 0, 0)
Neg(q) == Quat(-q.w, -q.x, -q.y, -q.z)

\* Optional values: None is the empty sequence, a value v is <<v>>.
None == <<>>
Some(v) == <<v>>
IsNone(o) == o = <<>>
Val(o) == o[1]

\* w**2 + x**2 + y**2 + z**2 and its square root
Norm2(q) == Mul(q.w, q.w) + Mul(q.x, q.x) + Mul(q.y, q.y) + Mul(q.z, q.z)
QNorm(q) == Sqrt(Norm2(q))
Dot(a, b) == Mul(a.w, b.w) + Mul(a.x, b.x) + Mul(a.y, b.y) + Mul(a.z, b.z)

\* w/norm, x/norm, y/norm, z/norm
Over(q, norm) == Quat(Div(q.w, norm), Div(q.x, norm), Div(q.y, norm), Div(q.z, norm))

\* A variant of normalize that leaves the quaternion as it is.
normalize_skipped(q) == q

\* A float keeps its relative precision at every magnitude. The fixed point
\* keeps it for a small quaternion by doubling it until a component reaches
\* 0.5, as one of a unit quaternion does; the direction stays as it is.
MaxAbs(q) == Max(Max(Abs(q.w), Abs(q.x)), Max(Abs(q.y), Abs(q.z)))

RECURSIVE Upscaled(_)
Upscaled(q) ==
    IF MaxAbs(q) >= Scale \div 2 THEN q
    ELSE Upscaled(Quat(2 * q.w, 2 * q.x, 2 * q.y, 2 * q.z))

\* Quaternion.normalize: divide by the norm when the norm is positive.
normalize(q) ==
    IF q = ZeroQuat THEN q ELSE Bind(Upscaled(q), LAMBDA u : Over(u, QNorm(u)))

\* Quaternion.to_euler_angles: (roll, pitch, yaw) in radians.
to_euler_angles(q0) ==
    Bind(QNorm(q0), LAMBDA norm :
    Bind(IF norm > 0 THEN Over(q0, norm) ELSE q0, LAMBDA q :
    Bind(2 * (Mul(q.w, q.y) - Mul(q.z, q.x)), LAMBDA sinp :
        [roll |-> Atan2(2 * (Mul(q.w, q.x) + Mul(q.y, q.z)),
                        Scale - 2 * (Mul(q.x, q.x) + Mul(q.y, q.y))),
         pitch |-> IF Abs(sinp) >= Scale THEN Sgn(sinp) * HalfPi ELSE Asin(sinp),
         yaw |-> Atan2(2 * (Mul(q.w, q.z) + Mul(q.x, q.y)),
                       Scale - 2 * (Mul(q.y, q.y) + Mul(q.z, q.z)))])))

(***************************************************************************)
(* class ComplementaryFilter (complementary_filter.py): helpers            *)
(***************************************************************************)
history_size == 10
drift_detection_window == 20
drift_threshold == 100
drift_correction_strength == 500000
roll_drift_threshold == 1745
roll_correction_strength == 800000
yaw_drift_threshold == 5236
yaw_correction_strength == 600000
reference_update_interval == 50
reset_interval == 1000
stability_window == 10
noise_threshold == 100000
alpha_min == 900000
alpha_max == 990000
gyro_min == 900000
gyro_max == 990000
SlerpLinearDot == 999500
DefaultDt == 20000

Half(a) == Sgn(a) * (Abs(a) \div 2)

\* The quaternion of _euler_to_quaternion from the cosines and sines of the
\* half angles.
euler_product(cr, sr, cp, sp, cy, sy) ==
    Quat(Mul(Mul(cr, cp), cy) + Mul(Mul(sr, sp), sy),
         Mul(Mul(sr, cp), cy) - Mul(Mul(cr, sp), sy),
         Mul(Mul(cr, sp), cy) + Mul(Mul(sr, cp), sy),
         Mul(Mul(cr, cp), sy) - Mul(Mul(sr, sp), cy))

\* _euler_to_quaternion
euler_to_quaternion(roll, pitch, yaw) ==
    euler_product(Cos(Half(roll)), Sin(Half(roll)), Cos(Half(pitch)), Sin(Half(pitch)),
                  Cos(Half(yaw)), Sin(Half(yaw)))

\* _quaternion_multiply
quaternion_multiply(q1, q2) ==
    Quat(Mul(q1.w, q2.w) - Mul(q1.x, q2.x) - Mul(q1.y, q2.y) - Mul(q1.z, q2.z),
         Mul(q1.w, q2.x) + Mul(q1.x, q2.w) + Mul(q1.y, q2.z) - Mul(q1.z, q2.y),
         Mul(q1.w, q2.y) - Mul(q1.x, q2.z) + Mul(q1.y, q2.w) + Mul(q1.z, q2.x),
         Mul(q1.w, q2.z) + Mul(q1.x, q2.y) - Mul(q1.y, q2.x) + Mul(q1.z, q2.w))

\* s0 * q1 + s1 * q2, component by component
Blend(s0, q1, s1, q2) ==
    Quat(Mul(s0, q1.w) + Mul(s1, q2.w), Mul(s0, q1.x) + Mul(s1, q2.x),
         Mul(s0, q1.y) + Mul(s1, q2.y), Mul(s0, q1.z) + Mul(s1, q2.z))

\* The weights (s0, s1) of _quaternion_slerp for the angle theta_0 between the
\* quaternions, whose cosine is dot.
slerp_weights(dot, theta_0, t) ==
    Bind(Sin(theta_0), LAMBDA sin_theta_0 :
    Bind(Mul(theta_0, t), LAMBDA theta :
    Bind(Sin(theta), LAMBDA sin_theta :
        <<Cos(theta) - Div(Mul(dot, sin_theta), sin_theta_0),
          Div(sin_theta, sin_theta_0)>>)))

\* _quaternion_slerp
quaternion_slerp(q1, q2in, t) ==
    Bind(Dot(q1, q2in), LAMBDA dot0 :
    Bind(IF dot0 < 0 THEN Neg(q2in) ELSE q2in, LAMBDA q2 :
    Bind(Abs(dot0), LAMBDA dot :
        normalize(IF dot > SlerpLinearDot
                  THEN Quat(q1.w + Mul(t, q2.w - q1.w), q1.x + Mul(t, q2.x - q1.x),
                            q1.y + Mul(t, q2.y - q1.y), q1.z + Mul(t, q2.z - q1.z))
                  ELSE Bind(slerp_weights(dot, Arccos(dot), t),
                            LAMBDA s : Blend(s[1], q1, s[2], q2))))))

\* _quaternion_angle_difference
quaternion_angle_difference(q1, q2) == 2 * Arccos(Min(Scale, Abs(Dot(q1, q2))))

\* An angle difference wrapped across the +/-180 degree boundary.
WrapPi(d) == IF d > Pi THEN d - TwoPi ELSE IF d < -Pi THEN d + TwoPi ELSE d

(***************************************************************************)
(* class ComplementaryFilter: state and operations.  A filter is a record  *)
(* of the object's fields; every operation of the class that changes the   *)
(* object returns the new record (f) together with its result (q).         *)
(***************************************************************************)
\* ComplementaryFilter.__init__ / AdaptiveComplementaryFilter.__init__
NewFilter(alpha, gyro_weight, adaptive) ==
    [adaptive |-> adaptive,
     alpha |-> alpha,
     gyro_weight |-> gyro_weight,
     accel_weight |-> Scale - gyro_weight,
     filtered_quaternion |-> None,
     last_time |-> None,
     initialized |-> FALSE,
     quaternion_history |-> <<>>,
     drift_history |-> <<>>,
     reference_quaternion |-> None,
     reference_counter |-> 0,
     reset_counter |-> 0,
     filter_count |-> 0,
     total_drift_correction |-> 0,
     drift_corrections_applied |-> 0,
     stability_history |-> <<>>]

\* ComplementaryFilter.reset
reset(f) ==
    [f EXCEPT !.filtered_quaternion = None,
              !.last_time = None,
              !.initialized = FALSE,
              !.quaternion_history = <<>>,
              !.drift_history = <<>>,
              !.reference_quaternion = None,
              !.reference_counter = 0,
              !.filter_count = 0,
              !.total_drift_correction = 0,
              !.drift_corrections_applied = 0]

\* _integrate_gyroscope
integrate_gyroscope(current_quat, g, dt) ==
    LET omega_quat == Quat(0, Mul(Mul(g[1], dt), 500000), Mul(Mul(g[2], dt), 500000),
                           Mul(Mul(g[3], dt), 500000))
    IN  normalize(quaternion_multiply(current_quat, omega_quat))

\* _estimate_from_accelerometer
estimate_from_accelerometer(a) ==
    Bind(Sqrt(Mul(a[1], a[1]) + Mul(a[2], a[2]) + Mul(a[3], a[3])), LAMBDA norm :
        IF norm = 0 THEN Identity
        ELSE Bind(Div(a[2], norm), LAMBDA ay :
             Bind(Div(a[3], norm), LAMBDA az :
                 euler_to_quaternion(Atan2(ay, az),
                                     Atan2(-Div(a[1], norm),
                                           Sqrt(Mul(ay, ay) + Mul(az, az))), 0))))

\* _full_complementary_filter
full_complementary_filter(f, raw_quat, gyro_data, accel_data, dt) ==
    quaternion_slerp(estimate_from_accelerometer(accel_data),
                     integrate_gyroscope(Val(f.filtered_quaternion), gyro_data, dt),
                     f.gyro_weight)

\* _calculate_drift_correction
calculate_drift_correction(f, raw_quat) ==
    LET recent_quats == LastN(f.quaternion_history, 3)
    IN  IF Len(f.quaternion_history) < 3 THEN 0
        ELSE Bind((quaternion_angle_difference(recent_quats[1], recent_quats[2])
                   + quaternion_angle_difference(recent_quats[2], recent_quats[3])) \div 2,
                  LAMBDA avg_change :
             Bind(quaternion_angle_difference(Val(f.filtered_quaternion), raw_quat),
                  LAMBDA current_change :
                 IF current_change > 2 * avg_change
                 THEN Mul(current_change - avg_change, 100000)
                 ELSE 0))

\* quat with its vector part multiplied by factor, normalised
scale_vector_part(quat, factor) ==
    normalize(Quat(quat.w, Mul(quat.x, factor), Mul(quat.y, factor), Mul(quat.z, factor)))

\* _apply_drift_correction
apply_drift_correction(quat, correction, dt) ==
    scale_vector_part(quat, Max(900000, Min(1100000,
                                    Scale - Mul(Mul(correction, dt), 100000))))

\* _simplified_complementary_filter
simplified_complementary_filter(f, raw_quat, dt) ==
    Bind(quaternion_slerp(Val(f.filtered_quaternion), raw_quat, Scale - f.alpha),
         LAMBDA filtered :
    Bind(calculate_drift_correction(f, raw_quat), LAMBDA drift_correction :
        IF Abs(drift_correction) > 1000
        THEN [f |-> [f EXCEPT !.total_drift_correction = @ + Abs(drift_correction)],
              q |-> apply_drift_correction(filtered, drift_correction, dt)]
        ELSE [f |-> f, q |-> filtered]))

\* The mean of the absolute wrapped differences of consecutive angles.
RECURSIVE AngleChanges(_)
AngleChanges(a) ==
    IF Len(a) < 2 THEN <<>>
    ELSE <<Abs(WrapPi(a[2] - a[1]))>> \o AngleChanges(Tail(a))

\* The angle differences of consecutive quaternions.
RECURSIVE QuatChanges(_)
QuatChanges(qs) ==
    IF Len(qs) < 2 THEN <<>>
    ELSE <<quaternion_angle_difference(qs[1], qs[2])>> \o QuatChanges(Tail(qs))

\* The verdict of _detect_drift once the drift history holds a full window.
drift_verdict(f, drift_history, current_change, recent_drifts) ==
    Bind(Mean(recent_drifts), LAMBDA drift_mean :
        [f |-> [f EXCEPT !.drift_history = drift_history],
         detected |-> /\ drift_mean > drift_threshold
                      /\ Var(recent_drifts) < drift_threshold \div 2
                      /\ LET recent_quats == LastN(f.quaternion_history, 5)
                         IN  2 * current_change >
                                 3 * (SeqSum(QuatChanges(recent_quats))
                                      \div (Len(recent_quats) - 1)),
         magnitude |-> drift_mean])

\* _detect_drift: returns the filter (drift_history appended to), whether a
\* drift was detected, and its magnitude.
detect_drift(f, current_quat) ==
    IF Len(f.quaternion_history) < history_size
    THEN [f |-> f, detected |-> FALSE, magnitude |-> 0]
    ELSE Bind(quaternion_angle_difference(
                  f.quaternion_history[Len(f.quaternion_history)], current_quat),
              LAMBDA current_change :
         Bind(AppendMax(f.drift_history, current_change, drift_detection_window),
              LAMBDA drift_history :
             IF Len(drift_history) >= drift_detection_window
             THEN drift_verdict(f, drift_history, current_change,
                                LastN(drift_history, 10))
             ELSE [f |-> [f EXCEPT !.drift_history = drift_history],
                   detected |-> FALSE, magnitude |-> 0]))

\* _correct_drift
correct_drift(f, quat, drift_magnitude, dt) ==
    IF IsNone(f.reference_quaternion) THEN quat
    ELSE IF quaternion_angle_difference(Val(f.reference_quaternion), quat)
                > 2 * drift_threshold
         THEN quaternion_slerp(quat, Val(f.reference_quaternion),
                               Mul(drift_correction_strength, dt))
         ELSE scale_vector_part(quat, Max(950000, Min(Scale,
                  Scale - Mul(Mul(drift_magnitude, drift_correction_strength), dt))))

\* _apply_drift_suppression
apply_drift_suppression(f, quat, dt) ==
    IF ~f.initialized \/ Len(f.quaternion_history) < 5
    THEN [f |-> f, q |-> quat]
    ELSE Bind(detect_drift(f, quat), LAMBDA d :
             IF d.detected
             THEN [f |-> [d.f EXCEPT !.drift_corrections_applied = @ + 1,
                                     !.total_drift_correction = @ + d.magnitude],
                   q |-> correct_drift(d.f, quat, d.magnitude, dt)]
             ELSE [f |-> d.f, q |-> quat])

\* The Euler angles of the quaternions qs
EulerAngles(qs) == [i \in 1..Len(qs) |-> to_euler_angles(qs[i])]

\* _apply_roll_drift_suppression
apply_roll_drift_suppression(f, quat, dt) ==
    IF ~f.initialized \/ Len(f.quaternion_history) < 5 THEN quat
    ELSE Bind(to_euler_angles(quat), LAMBDA e :
         Bind(EulerAngles(LastN(f.quaternion_history, 3)), LAMBDA recent :
             IF /\ Mean(AngleChanges([i \in 1..Len(recent) |-> recent[i].roll]))
                       < roll_drift_threshold
                /\ ~IsNone(f.reference_quaternion)
             THEN Bind(WrapPi(e.roll - to_euler_angles(Val(f.reference_quaternion)).roll),
                       LAMBDA roll_drift :
                      IF Abs(roll_drift) > roll_drift_threshold
                      THEN euler_to_quaternion(
                               e.roll - Mul(Mul(roll_drift, roll_correction_strength), dt),
                               e.pitch, e.yaw)
                      ELSE quat)
             ELSE quat))

\* _apply_yaw_drift_suppression
apply_yaw_drift_suppression(f, quat, dt) ==
    IF ~f.initialized \/ Len(f.quaternion_history) < 10 THEN quat
    ELSE Bind(to_euler_angles(quat), LAMBDA e :
         Bind(EulerAngles(LastN(f.quaternion_history, 5)), LAMBDA recent :
             IF /\ Mean(AngleChanges([i \in 1..Len(recent) |-> recent[i].yaw]))
                       < yaw_drift_threshold
                /\ ~IsNone(f.reference_quaternion)
             THEN Bind(WrapPi(e.yaw - to_euler_angles(Val(f.reference_quaternion)).yaw),
                       LAMBDA yaw_drift :
                      IF Abs(yaw_drift) > yaw_drift_threshold
                      THEN euler_to_quaternion(
                               e.roll, e.pitch,
                               e.yaw - Mul(Mul(yaw_drift, yaw_correction_strength), dt))
                      ELSE quat)
             ELSE quat))

\* _check_periodic_reset
check_periodic_reset(f, quat) ==
    IF f.reset_counter + 1 >= reset_interval
    THEN [f EXCEPT !.reference_quaternion = Some(quat), !.reset_counter = 0]
    ELSE [f EXCEPT !.reset_counter = @ + 1]

\* The weights of _apply_moving_average for n history points, normalised.
MovingAverageWeights(n) ==
    LET weights == LastN(<<100000, 200000, 300000, 400000>>, n)
        total == SeqSum(weights)
    IN  [i \in 1..Len(weights) |-> Div(weights[i], total)]

\* The sum of the quaternions quats weighted by weights, normalised.
weighted_average(quats, weights) ==
    normalize(Quat(SeqSum([i \in 1..Len(quats) |-> Mul(quats[i].w, weights[i])]),
                   SeqSum([i \in 1..Len(quats) |-> Mul(quats[i].x, weights[i])]),
                   SeqSum([i \in 1..Len(quats) |-> Mul(quats[i].y, weights[i])]),
                   SeqSum([i \in 1..Len(quats) |-> Mul(quats[i].z, weights[i])])))

\* _apply_moving_average
apply_moving_average(f) ==
    IF Len(f.quaternion_history) < 2
    THEN f.quaternion_history[Len(f.quaternion_history)]
    ELSE weighted_average(LastN(f.quaternion_history, 4),
                          MovingAverageWeights(Min(4, Len(f.quaternion_history))))

\* A variant of _update_reference_quaternion that moves the reference on
\* every tick, stable or not.
update_reference_quaternion_always(f, quat) ==
    IF IsNone(f.reference_quaternion)
    THEN [f EXCEPT !.reference_counter = @ + 1, !.reference_quaternion = Some(quat)]
    ELSE IF f.reference_counter + 1 >= reference_update_interval
         THEN [f EXCEPT !.reference_counter = 0,
                        !.reference_quaternion = Some(quaternion_slerp(Val(@), quat, 10000))]
         ELSE [f EXCEPT !.reference_counter = @ + 1]

\* _update_reference_quaternion
update_reference_quaternion(f, quat) ==
    LET recent_stability == Var(LastN(f.drift_history, 10))
    IN  IF IsNone(f.reference_quaternion)
        THEN [f EXCEPT !.reference_counter = @ + 1, !.reference_quaternion = Some(quat)]
        ELSE IF f.reference_counter + 1 >= reference_update_interval
             THEN IF Len(f.drift_history) >= 10 /\ recent_stability < drift_threshold \div 10
                  THEN [f EXCEPT !.reference_counter = 0,
                                 !.reference_quaternion =
                                     Some(quaternion_slerp(Val(@), quat, 10000))]
                  ELSE [f EXCEPT !.reference_counter = 0]
             ELSE [f EXCEPT !.reference_counter = @ + 1]

\* first_call with the call counted as a filtered sample
first_call_counted(f, raw) ==
    [f |-> [f EXCEPT !.filtered_quaternion = Some(raw),
                     !.initialized = TRUE,
                     !.quaternion_history = AppendMax(@, raw, history_size),
                     !.filter_count = @ + 1],
     q |-> raw]

\* The branch of filter_quaternion taken while the filter is not initialized:
\* the normalised raw quaternion is copied, stored and returned.
first_call(f, raw) ==
    [f |-> [f EXCEPT !.filtered_quaternion = Some(raw),
                     !.initialized = TRUE,
                     !.quaternion_history = AppendMax(@, raw, history_size)],
     q |-> raw]

\* The end of filter_quaternion: the corrected quaternion is appended to the
\* history, the history is smoothed, the reference is updated and the
\* smoothed quaternion is stored and returned.  f2 is the filter after
\* _check_periodic_reset.
store_and_smooth(f2, final_corrected) ==
    Bind([f2 EXCEPT !.quaternion_history = AppendMax(@, final_corrected, history_size)],
         LAMBDA f3 :
    Bind(apply_moving_average(f3), LAMBDA smoothed :
        [f |-> [update_reference_quaternion(f3, smoothed)
                    EXCEPT !.filtered_quaternion = Some(smoothed),
                           !.filter_count = @ + 1],
         q |-> smoothed]))

\* The three drift suppressions of filter_quaternion on the fused quaternion,
\* then the periodic reset check.
suppress_drift(fused, dt) ==
    Bind(apply_drift_suppression(fused.f, fused.q, dt), LAMBDA drift_corrected :
    Bind(apply_yaw_drift_suppression(
             drift_corrected.f,
             apply_roll_drift_suppression(drift_corrected.f, drift_corrected.q, dt), dt),
         LAMBDA yaw_corrected :
        store_and_smooth(check_periodic_reset(drift_corrected.f, yaw_corrected),
                         yaw_corrected)))

\* ComplementaryFilter.filter_quaternion.  gyro_data, accel_data and dtArg are
\* Optional; current_time is time.time().
base_filter_quaternion(f, raw_quaternion, gyro_data, accel_data, dtArg, current_time) ==
    LET dt == IF ~IsNone(dtArg) THEN Val(dtArg)
              ELSE IF ~IsNone(f.last_time) THEN current_time - Val(f.last_time)
              ELSE DefaultDt
        f0 == [f EXCEPT !.last_time = Some(current_time)]
    IN  Bind(normalize(raw_quaternion), LAMBDA raw :
            IF ~f.initialized
            THEN first_call(f0, raw)
            ELSE suppress_drift(
                     IF ~IsNone(gyro_data) /\ ~IsNone(accel_data)
                     THEN [f |-> f0,
                           q |-> full_complementary_filter(f0, raw, Val(gyro_data),
                                                           Val(accel_data), dt)]
                     ELSE simplified_complementary_filter(f0, raw, dt), dt))

\* AdaptiveComplementaryFilter._assess_data_stability
assess_data_stability(f, raw_quat) ==
    IF ~f.initialized \/ Len(f.quaternion_history) < 2 THEN Scale
    ELSE Max(0, Scale - Div(quaternion_angle_difference(
                                f.quaternion_history[Len(f.quaternion_history)], raw_quat),
                            noise_threshold))

\* _adapt_parameters without its wait for a full stability window
adapt_parameters_unwindowed(f) ==
    LET avg_stability == Mean(f.stability_history)
        gyro_weight == gyro_min + Mul(gyro_max - gyro_min, avg_stability)
    IN  [f EXCEPT !.alpha = alpha_min + Mul(alpha_max - alpha_min, avg_stability),
                  !.gyro_weight = gyro_weight,
                  !.accel_weight = Scale - gyro_weight]

\* AdaptiveComplementaryFilter._adapt_parameters
adapt_parameters(f) ==
    IF Len(f.stability_history) < stability_window THEN f
    ELSE LET avg_stability == Mean(f.stability_history)
             gyro_weight == gyro_min + Mul(gyro_max - gyro_min, avg_stability)
         IN  [f EXCEPT !.alpha = alpha_min + Mul(alpha_max - alpha_min, avg_stability),
                       !.gyro_weight = gyro_weight,
                       !.accel_weight = Scale - gyro_weight]

\* filter_quaternion of the filter's class: AdaptiveComplementaryFilter assesses the
\* stability and adapts the parameters first, then calls the base class.
filter_quaternion(f, raw_quaternion, gyro_data, accel_data, dtArg, current_time) ==
    base_filter_quaternion(
        IF f.adaptive
        THEN adapt_parameters([f EXCEPT !.stability_history =
                 AppendMax(@, assess_data_stability(f, raw_quaternion), stability_window)])
        ELSE f,
        raw_quaternion, gyro_data, accel_data, dtArg, current_time)

(***************************************************************************)
(* Bytes, text and float values.  A byte is an integer 0..255 and a text   *)
(* is a sequence of character codes.  A float is a fixed-point integer of  *)
(* magnitude at most FloatRange, or one of the codes below for the values  *)
(* fixed point has no room for.                                            *)
(***************************************************************************)
\* float('nan'); math.isnan holds of it.
FNaN == 2000000001
\* float('inf'); math.isinf holds of FInf and of -FInf.
FInf == 2000000002
\* A finite float v for which v**2 raises OverflowError (|v| above 1.34e154).
FHuge == 2000000003
\* A finite float of magnitude above FloatRange whose square is finite.
FBig == 2000000004
\* The largest magnitude kept as a fixed-point number (20.0).
FloatRange == 20000000

IsSpecial(v) == Abs(v) > FloatRange
\* -v for a float v (NaN has no sign)
FNeg(v) == IF v = FNaN THEN FNaN ELSE -v

\* ord(c) for the characters the model writes its texts with
Ord(c) ==
    CASE c = "\n" -> 10 [] c = "\r" -> 13 [] c = "\t" -> 9 [] c = " " -> 32
      [] c = "+" -> 43 [] c = "," -> 44 [] c = "-" -> 45 [] c = "." -> 46
      [] c = "0" -> 48 [] c = "1" -> 49 [] c = "2" -> 50 [] c = "3" -> 51
      [] c = "4" -> 52 [] c = "5" -> 53 [] c = "6" -> 54 [] c = "7" -> 55
      [] c = "8" -> 56 [] c = "9" -> 57 [] c = "E" -> 69 [] c = "a" -> 97
      [] c = "e" -> 101 [] c = "f" -> 102 [] c = "i" -> 105 [] c = "n" -> 110
      [] c = "x" -> 120 [] c = "~" -> 200
\* The bytes of a text written as a sequence of one-character strings
\* ("~" stands for a byte that is not ASCII).
Bytes(cs) == [i \in 1..Len(cs) |-> Ord(cs[i])]

IsDigit(b) == b >= 48 /\ b <= 57
\* The characters str.strip() removes
IsSpace(b) == b \in {9, 10, 11, 12, 13, 28, 29, 30, 31, 32}

\* bytes.decode('ascii', errors='ignore')
decode_ascii(data) == SelectSeq(data, LAMBDA b : b < 128)

\* text.replace('\r\n', '\n').replace('\r', '\n')
RECURSIVE replace_newlines(_)
replace_newlines(t) ==
    IF t = <<>> THEN <<>>
    ELSE IF t[1] = 13
         THEN IF Len(t) >= 2 /\ t[2] = 10
              THEN <<10>> \o replace_newlines(SubSeq(t, 3, Len(t)))
              ELSE <<10>> \o replace_newlines(Tail(t))
         ELSE <<t[1]>> \o replace_newlines(Tail(t))

\* str.split(sep): the pieces between the separators, at least one piece.
RECURSIVE SplitFrom(_, _, _)
SplitFrom(t, sep, cur) ==
    IF t = <<>> THEN <<cur>>
    ELSE IF t[1] = sep THEN <<cur>> \o SplitFrom(Tail(t), sep, <<>>)
         ELSE SplitFrom(Tail(t), sep, Append(cur, t[1]))

split(t, sep) == SplitFrom(t, sep, <<>>)

\* str.strip()
RECURSIVE lstrip(_)
lstrip(t) == IF t # <<>> /\ IsSpace(t[1]) THEN lstrip(Tail(t)) ELSE t

RECURSIVE rstrip(_)
rstrip(t) ==
    IF t # <<>> /\ IsSpace(t[Len(t)]) THEN rstrip(SubSeq(t, 1, Len(t) - 1)) ELSE t

strip(t) == rstrip(lstrip(t))

(***************************************************************************)
(* float(text).  The result is [ok, v]: ok is FALSE when float() raises    *)
(* ValueError.  The grammar is the one of Python for the characters of Ord *)
(* (sign, digits, point, exponent, "nan", "inf").  A value d.ddd * 10^m    *)
(* becomes Infinity from m = 309, FHuge from m = 155 and FBig above        *)
(* FloatRange; the exact thresholds (1.8e308, 1.34e154) lie inside the     *)
(* decades m = 308 and m = 154.                                            *)
(***************************************************************************)
AllDigits(t) == \A i \in 1..Len(t) : IsDigit(t[i])

\* The first index of t holding a member of S, 0 when there is none
FirstIn(t, S) ==
    IF \E i \in 1..Len(t) : t[i] \in S
    THEN CHOOSE i \in 1..Len(t) : t[i] \in S /\ \A j \in 1..(i - 1) : t[j] \notin S
    ELSE 0

\* int(digits), saturated at 1000
RECURSIVE DigitsValue(_, _)
DigitsValue(t, acc) ==
    IF t = <<>> THEN acc
    ELSE DigitsValue(Tail(t), Min(1000, 10 * acc + (t[1] - 48)))

Pow10(n) == <<1, 10, 100, 1000, 10000, 100000, 1000000, 10000000, 100000000>>[n + 1]

\* The value of the digits D (the first nint of them before the point)
\* times 10^e, as a float.
DecimalValue(D, nint, e) ==
    LET first == FirstIn(D, 49..57)
        m == nint - first + e
        place(i) == nint - i + e + 6
        units == SeqSum([i \in 1..Len(D) |->
                     IF place(i) >= 0 /\ place(i) <= 8
                     THEN (D[i] - 48) * Pow10(place(i)) ELSE 0])
        carry == IF \E i \in 1..Len(D) : place(i) = -1 /\ D[i] >= 53 THEN 1 ELSE 0
    IN  IF first = 0 THEN 0
        ELSE IF m >= 309 THEN FInf
        ELSE IF m >= 155 THEN FHuge
        ELSE IF m >= 2 THEN FBig
        ELSE IF m < -7 THEN 0
        ELSE IF units + carry > FloatRange THEN FBig
        ELSE units + carry

\* float() of a decimal text: the digits before and after the point, and the
\* digits of the exponent (mark = 0 when the text has no exponent).
parse_decimal(negative, ipart, fpart, mark, enegative, edigits) ==
    IF /\ AllDigits(ipart) /\ AllDigits(fpart)
       /\ Len(ipart) + Len(fpart) >= 1
       /\ mark = 0 \/ (edigits # <<>> /\ AllDigits(edigits))
    THEN Bind(DecimalValue(ipart \o fpart, Len(ipart),
                           IF enegative THEN -DigitsValue(edigits, 0)
                           ELSE DigitsValue(edigits, 0)),
              LAMBDA value : [ok |-> TRUE, v |-> IF negative THEN FNeg(value) ELSE value])
    ELSE [ok |-> FALSE, v |-> 0]

\* float() of the mantissa text mant and the exponent text expo
parse_mantissa(negative, mant, mark, expo) ==
    LET dot == FirstIn(mant, {46})
        esigned == expo # <<>> /\ expo[1] \in {43, 45}
    IN  parse_decimal(negative,
                      IF dot = 0 THEN mant ELSE SubSeq(mant, 1, dot - 1),
                      IF dot = 0 THEN <<>> ELSE SubSeq(mant, dot + 1, Len(mant)),
                      mark,
                      esigned /\ expo[1] = 45,
                      IF esigned THEN Tail(expo) ELSE expo)

\* float() of the text body that follows the sign
parse_unsigned(negative, body) ==
    IF body = Bytes(<<"n", "a", "n">>) THEN [ok |-> TRUE, v |-> FNaN]
    ELSE IF body = Bytes(<<"i", "n", "f">>)
         THEN [ok |-> TRUE, v |-> IF negative THEN -FInf ELSE FInf]
    ELSE LET mark == FirstIn(body, {69, 101})
         IN  parse_mantissa(negative,
                            IF mark = 0 THEN body ELSE SubSeq(body, 1, mark - 1),
                            mark,
                            IF mark = 0 THEN <<>> ELSE SubSeq(body, mark + 1, Len(body)))

parse_float(text) ==
    Bind(strip(text), LAMBDA s :
        LET signed == s # <<>> /\ s[1] \in {43, 45}
        IN  parse_unsigned(signed /\ s[1] = 45, IF signed THEN Tail(s) ELSE s))

(***************************************************************************)
(* struct.unpack('<f', ...): the IEEE-754 single of four little-endian     *)
(* bytes, rounded to fixed point.  A single is never FHuge: its square is  *)
(* at most 1.2e77.                                                         *)
(***************************************************************************)
unpack_float32(b0, b1, b2, b3) ==
    LET negative == b3 >= 128
        e == (b3 % 128) * 2 + b2 \div 128
        mant == (b2 % 128) * 65536 + b1 * 256 + b0
        M == 8388608 + mant
        k == e - 127
        \* M * 10^6 / 2^23 = M * 15625 / 2^17, computed in two halves of M
        A == (M \div 4096) * 15625 + ((M % 4096) * 15625) \div 4096
        shift == 2 ^ (5 - k)
        units == (A + shift \div 2) \div shift
        magnitude == IF e = 255 THEN (IF mant = 0 THEN FInf ELSE FNaN)
                     ELSE IF e = 0 \/ k < -24 THEN 0
                     ELSE IF k >= 5 THEN FBig
                     ELSE IF units > FloatRange THEN FBig
                     ELSE units
    IN  IF negative THEN FNeg(magnitude) ELSE magnitude

\* struct.unpack('<H', ...)
unpack_uint16(b0, b1) == b0 + 256 * b1

\* struct.unpack('<ffff', data[i:i+16]) as a Quaternion; i is 1-based here.
unpack_quaternion(data, i) ==
    Quat(unpack_float32(data[i], data[i + 1], data[i + 2], data[i + 3]),
         unpack_float32(data[i + 4], data[i + 5], data[i + 6], data[i + 7]),
         unpack_float32(data[i + 8], data[i + 9], data[i + 10], data[i + 11]),
         unpack_float32(data[i + 12], data[i + 13], data[i + 14], data[i + 15]))

(***************************************************************************)
(* class QuaternionProcessor (quaternion_processor.py): the decoders       *)
(***************************************************************************)
float32_packet_size == 16
custom_packet_size == 20
custom_header == 43605
ascii_buffer_limit == 1000
ascii_buffer_keep == 500
max_quaternion_norm_deviation == 100000

\* _parse_float32_quaternion: one quaternion per whole 16 bytes
parse_float32_quaternion(data) ==
    [n \in 1..(Len(data) \div float32_packet_size) |->
        unpack_quaternion(data, (n - 1) * float32_packet_size + 1)]

\* The header test of _parse_custom_quaternion on the packet starting at i
custom_header_ok(data, i) == unpack_uint16(data[i], data[i + 1]) = custom_header

\* _parse_custom_quaternion: the packets are taken every 20 bytes; a packet
\* whose header is not 0xAA55 is skipped (continue) and nothing else is done.
RECURSIVE CustomFrom(_, _)
CustomFrom(data, i) ==
    IF i + custom_packet_size - 1 > Len(data) THEN <<>>
    ELSE IF ~custom_header_ok(data, i) THEN CustomFrom(data, i + custom_packet_size)
    ELSE <<unpack_quaternion(data, i + 2)>> \o CustomFrom(data, i + custom_packet_size)

parse_custom_quaternion(data) == CustomFrom(data, 1)

binary_quaternion_size == 16

\* struct.unpack('>ffff', data[i:i+16]) as a Quaternion; i is 1-based here.
unpack_quaternion_be(data, i) ==
    Quat(unpack_float32(data[i + 3], data[i + 2], data[i + 1], data[i]),
         unpack_float32(data[i + 7], data[i + 6], data[i + 5], data[i + 4]),
         unpack_float32(data[i + 11], data[i + 10], data[i + 9], data[i + 8]),
         unpack_float32(data[i + 15], data[i + 14], data[i + 13], data[i + 12]))

(***************************************************************************)
(* The magnitude test of _parse_binary_quaternion in the arithmetic of the *)
(* code: the components are IEEE-754 singles, their squares and the sums   *)
(* are doubles, and every sum is rounded to 53 bits, to nearest, ties to   *)
(* even.  A natural number is the sequence of its bits, lowest first; a    *)
(* non-negative double is [m, e] of value m * 2^e.                         *)
(***************************************************************************)
double_precision == 53

\* The k lowest bits of n
NatBits(n, k) == [j \in 1..k |-> (n \div 2 ^ (j - 1)) % 2]

\* a * 2^k
ShiftLeft(a, k) == [j \in 1..k |-> 0] \o a

RECURSIVE Trim(_)
\* a without its leading zeros
Trim(a) == IF a = <<>> \/ a[Len(a)] = 1 THEN a ELSE Trim(SubSeq(a, 1, Len(a) - 1))

RECURSIVE BitsAdd(_, _, _)
\* a + b + carry
BitsAdd(a, b, carry) ==
    IF a = <<>> /\ b = <<>> THEN (IF carry = 1 THEN <<1>> ELSE <<>>)
    ELSE LET t == (IF a = <<>> THEN 0 ELSE a[1]) + (IF b = <<>> THEN 0 ELSE b[1]) + carry
         IN  <<t % 2>> \o BitsAdd(IF a = <<>> THEN a ELSE Tail(a),
                                  IF b = <<>> THEN b ELSE Tail(b), t \div 2)

\* a <= b, of two naturals without leading zeros
NatLeq(a, b) ==
    IF Len(a) # Len(b) THEN Len(a) < Len(b)
    ELSE ~\E j \in 1..Len(a) :
             /\ a[j] > b[j]
             /\ \A k \in (j + 1)..Len(a) : a[k] = b[k]

\* The double nearest to m * 2^e, ties to even
DoubleRound(m, e) ==
    Bind(Trim(m), LAMBDA a :
        IF Len(a) <= double_precision THEN [m |-> a, e |-> e]
        ELSE Bind(Len(a) - double_precision, LAMBDA d :
                 Bind(SubSeq(a, d + 1, Len(a)), LAMBDA kept :
                     [m |-> IF a[d] = 1 /\ (kept[1] = 1 \/ \E j \in 1..(d - 1) : a[j] = 1)
                            THEN BitsAdd(kept, <<1>>, 0) ELSE kept,
                      e |-> e + d])))

\* The exponent of the leading bit of a double that is not zero
LeadingExponent(x) == x.e + Len(x.m) - 1

\* x + y of two doubles.  A y below half the unit of the last place of x
\* leaves x as it is.
DoubleAdd(x, y) ==
    IF x.m = <<>> THEN y
    ELSE IF y.m = <<>> THEN x
    ELSE IF LeadingExponent(y) + double_precision < LeadingExponent(x) THEN x
    ELSE IF LeadingExponent(x) + double_precision < LeadingExponent(y) THEN y
    ELSE Bind(Min(x.e, y.e), LAMBDA e :
             DoubleRound(BitsAdd(ShiftLeft(x.m, x.e - e), ShiftLeft(y.m, y.e - e), 0), e))

\* x <= y of two doubles
DoubleLeq(x, y) ==
    IF x.m = <<>> THEN TRUE
    ELSE IF y.m = <<>> THEN FALSE
    ELSE IF LeadingExponent(x) # LeadingExponent(y)
    THEN LeadingExponent(x) < LeadingExponent(y)
    ELSE Bind(Min(x.e, y.e), LAMBDA e :
             NatLeq(ShiftLeft(x.m, x.e - e), ShiftLeft(y.m, y.e - e)))

\* The IEEE-754 single of four little-endian bytes, exactly: its magnitude
\* is m * 2^e; special tells an infinity or a NaN.
unpack_single(b0, b1, b2, b3) ==
    Bind((b3 % 128) * 2 + b2 \div 128, LAMBDA exponent :
        Bind((b2 % 128) * 65536 + b1 * 256 + b0, LAMBDA mant :
            [special |-> exponent = 255,
             m |-> IF exponent = 0 THEN mant ELSE 8388608 + mant,
             e |-> IF exponent = 0 THEN -149 ELSE exponent - 150]))

\* v*v of a single as a double: the product has at most 48 bits and is exact.
\* m is hi * 2^12 + lo.
SingleSquare(v) ==
    Bind(v.m \div 4096, LAMBDA hi :
        Bind(v.m % 4096, LAMBDA lo :
            [m |-> Trim(BitsAdd(BitsAdd(ShiftLeft(NatBits(hi * hi, 24), 24),
                                        ShiftLeft(NatBits(2 * hi * lo, 25), 12), 0),
                                NatBits(lo * lo, 24), 0)),
             e |-> 2 * v.e]))

\* w*w + x*x + y*y + z*z, summed from the left
magnitude_squared(w, x, y, z) ==
    DoubleAdd(DoubleAdd(DoubleAdd(SingleSquare(w), SingleSquare(x)), SingleSquare(y)),
              SingleSquare(z))

\* math.sqrt is correctly rounded and monotonic: 0.1 <= math.sqrt(s) exactly
\* when s is at least the double 0x1.47ae147ae147bp-7, and
\* math.sqrt(s) <= 2.0 exactly when s is at most 0x1.0000000000001p+2.
binary_min_square ==
    [m |-> NatBits(922747, 20) \o NatBits(922746, 20) \o NatBits(5242, 13), e |-> -59]
binary_max_square ==
    [m |-> NatBits(1, 20) \o NatBits(0, 20) \o NatBits(4096, 13), e |-> -50]

\* A reading of a chunk: the Quaternion it makes, and its four singles in
\* the order w, x, y, z
unpack_reading(data, i) ==
    [q |-> unpack_quaternion(data, i),
     s |-> [n \in 1..4 |-> unpack_single(data[i + 4 * n - 4], data[i + 4 * n - 3],
                                         data[i + 4 * n - 2], data[i + 4 * n - 1])]]

unpack_reading_be(data, i) ==
    [q |-> unpack_quaternion_be(data, i),
     s |-> [n \in 1..4 |-> unpack_single(data[i + 4 * n - 1], data[i + 4 * n - 2],
                                         data[i + 4 * n - 3], data[i + 4 * n - 4])]]

\* x, y, z, w = values of the little-endian reading
reading_xyzw(le) ==
    [q |-> Quat(le.q.z, le.q.w, le.q.x, le.q.y),
     s |-> <<le.s[4], le.s[1], le.s[2], le.s[3]>>]

\* 0.1 <= magnitude <= 2.0 of _parse_binary_quaternion, where magnitude is
\* math.sqrt(w*w + x*x + y*y + z*z): no comparison holds of NaN, and an
\* infinite component makes the magnitude exceed 2.0.
binary_magnitude_ok(r) ==
    /\ \A n \in 1..4 : ~r.s[n].special
    /\ Bind(magnitude_squared(r.s[1], r.s[2], r.s[3], r.s[4]), LAMBDA square :
            DoubleLeq(binary_min_square, square) /\ DoubleLeq(square, binary_max_square))

\* A decoder of the chunk that knows little-endian (w,x,y,z) only
parse_binary_chunk_little_only(data, i) ==
    Bind(unpack_reading(data, i), LAMBDA le :
        IF binary_magnitude_ok(le) THEN <<le.q>> ELSE <<>>)

\* The body of the loop of _parse_binary_quaternion for the chunk starting at
\* i: little-endian, then big-endian, then little-endian read as x,y,z,w; the
\* first reading with a magnitude in range is appended (continue).
parse_binary_chunk(data, i) ==
    Bind(unpack_reading(data, i), LAMBDA le :
        IF binary_magnitude_ok(le) THEN <<le.q>>
        ELSE Bind(unpack_reading_be(data, i), LAMBDA be :
                 IF binary_magnitude_ok(be) THEN <<be.q>>
                 ELSE Bind(reading_xyzw(le), LAMBDA xyzw :
                          IF binary_magnitude_ok(xyzw) THEN <<xyzw.q>> ELSE <<>>)))

\* _parse_binary_quaternion: the chunks are taken every 16 bytes.
RECURSIVE BinaryFrom(_, _)
BinaryFrom(data, i) ==
    IF i + binary_quaternion_size - 1 > Len(data) THEN <<>>
    ELSE parse_binary_chunk(data, i) \o BinaryFrom(data, i + binary_quaternion_size)

parse_binary_quaternion(data) == BinaryFrom(data, 1)

\* Quaternion(w, x, y, z) of four parsed floats; none when float() raised.
quaternion_of_floats(w, x, y, z) ==
    IF w.ok /\ x.ok /\ y.ok /\ z.ok THEN <<Quat(w.v, x.v, y.v, z.v)>> ELSE <<>>

\* The body of the line loop of _parse_ascii_quaternion: the quaternions (none
\* or one) of one complete line.
parse_ascii_line(line0) ==
    Bind(strip(line0), LAMBDA line :
        IF line = <<>> THEN <<>>
        ELSE Bind(split(line, 44), LAMBDA parts :
                 IF Len(parts) >= 4
                 THEN quaternion_of_floats(parse_float(parts[1]), parse_float(parts[2]),
                                           parse_float(parts[3]), parse_float(parts[4]))
                 ELSE <<>>))

RECURSIVE ParseLines(_)
ParseLines(lines) ==
    IF lines = <<>> THEN <<>>
    ELSE parse_ascii_line(lines[1]) \o ParseLines(Tail(lines))

\* _parse_ascii_quaternion on a decoder whose carry-over is ascii_buffer:
\* [quaternions, ascii_buffer].  The text is the carry-over followed by the
\* new data; every line but the last is complete, the last one is carried
\* over, cut to its last 500 bytes when it is longer than 1000.  The first
\* definition is a decoder that forgets the incomplete line.
parse_ascii_quaternion_no_carry(ascii_buffer, data) ==
    Bind(split(replace_newlines(decode_ascii(ascii_buffer \o data)), 10), LAMBDA lines :
        [quaternions |-> ParseLines(SubSeq(lines, 1, Len(lines) - 1)),
         ascii_buffer |-> <<>>])

parse_ascii_quaternion(ascii_buffer, data) ==
    Bind(split(replace_newlines(decode_ascii(ascii_buffer \o data)), 10), LAMBDA lines :
        [quaternions |-> ParseLines(SubSeq(lines, 1, Len(lines) - 1)),
         ascii_buffer |-> LET incomplete_line == lines[Len(lines)]
                          IN  IF Len(incomplete_line) > ascii_buffer_limit
                              THEN LastN(incomplete_line, ascii_buffer_keep)
                              ELSE incomplete_line])

\* _validate_quaternion: "valid" (True), "invalid" (False) or "raise" when
\* quat.w**2 + ... raises OverflowError.  The squares of FBig components are
\* finite, so the norm is far from 1 and the quaternion is invalid.
validate_quaternion(quat) ==
    LET comps == <<quat.w, quat.x, quat.y, quat.z>>
        norm == QNorm(quat)
    IN  IF \E i \in 1..4 : comps[i] = FNaN \/ Abs(comps[i]) = FInf THEN "invalid"
        ELSE IF \E i \in 1..4 : Abs(comps[i]) = FHuge THEN "raise"
        ELSE IF \E i \in 1..4 : Abs(comps[i]) = FBig THEN "invalid"
        ELSE IF Abs(norm - Scale) > max_quaternion_norm_deviation THEN "invalid"
        ELSE "valid"

(***************************************************************************)
(* class QuaternionProcessor: state and process_raw_data.  A processor is  *)
(* a record of the object's fields.                                        *)
(***************************************************************************)
processor_history_size == 1000
processor_filter_alpha == 650000
processor_filter_gyro_weight == 550000

\* The formats of data_formats the model decodes
DataFormats == {"float32", "ascii", "custom"}

\* QuaternionProcessor.__init__
NewProcessor(enable_filtering) ==
    [current_format |-> "float32",
     validation_enabled |-> TRUE,
     enable_filtering |-> enable_filtering,
     total_packets |-> 0,
     valid_packets |-> 0,
     invalid_packets |-> 0,
     ascii_buffer |-> <<>>,
     complementary_filter |->
         IF enable_filtering
         THEN Some(NewFilter(processor_filter_alpha, processor_filter_gyro_weight, TRUE))
         ELSE None,
     quaternion_history |-> <<>>,
     euler_history |-> <<>>]

\* set_data_format
set_data_format(p, format_name) ==
    IF format_name \in DataFormats THEN [p EXCEPT !.current_format = format_name] ELSE p

\* self.data_formats[self.current_format](raw_data): [p, quaternions]
decode(p, raw_data) ==
    IF p.current_format = "ascii"
    THEN Bind(parse_ascii_quaternion(p.ascii_buffer, raw_data), LAMBDA r :
             [p |-> [p EXCEPT !.ascii_buffer = r.ascii_buffer],
              quaternions |-> r.quaternions])
    ELSE IF p.current_format = "custom"
         THEN [p |-> p, quaternions |-> parse_custom_quaternion(raw_data)]
         ELSE [p |-> p, quaternions |-> parse_float32_quaternion(raw_data)]

\* The body of the loop of process_raw_data for a candidate that passed the
\* validation: normalise, filter, convert, append.  t is time.time().  The
\* field candidate of the data point is not in the code: it records the
\* decoded candidate the sample was made from.
process_candidate(p, quat0, t) ==
    Bind(normalize(quat0), LAMBDA quat :
    Bind(IF ~IsNone(p.complementary_filter)
         THEN filter_quaternion(Val(p.complementary_filter), quat, None, None, None, t)
         ELSE [f |-> ZeroQuat, q |-> quat], LAMBDA r :
    Bind(to_euler_angles(r.q), LAMBDA euler :
        [p |-> [p EXCEPT !.complementary_filter =
                             IF IsNone(@) THEN None ELSE Some(r.f),
                         !.quaternion_history =
                             AppendMax(@, r.q, processor_history_size),
                         !.euler_history = AppendMax(@, euler, processor_history_size),
                         !.valid_packets = @ + 1],
         data_point |-> [quaternion |-> r.q,
                         quaternion_raw |-> quat,
                         euler_angles |-> euler,
                         filtered |-> p.enable_filtering,
                         candidate |-> quat0]])))

\* The loop of process_raw_data over the decoded candidates; the samples are
\* gap apart in time.  raised tells that _validate_quaternion raised.
RECURSIVE ProcessLoop(_, _, _, _, _)
ProcessLoop(p, quaternions, processed_data, t, gap) ==
    IF quaternions = <<>>
    THEN [p |-> p, processed_data |-> processed_data, raised |-> FALSE]
    ELSE Bind(IF p.validation_enabled THEN validate_quaternion(Head(quaternions))
              ELSE "valid", LAMBDA verdict :
             IF verdict = "raise"
             THEN [p |-> p, processed_data |-> processed_data, raised |-> TRUE]
             ELSE IF verdict = "invalid"
                  THEN ProcessLoop([p EXCEPT !.invalid_packets = @ + 1],
                                   Tail(quaternions), processed_data, t, gap)
             ELSE Bind(process_candidate(p, Head(quaternions), t), LAMBDA done :
                      ProcessLoop(done.p, Tail(quaternions),
                                  Append(processed_data, done.data_point),
                                  t + gap, gap)))

\* process_raw_data: [p, processed_data].  An exception raised in the loop is
\* caught by the handler of the whole body, which returns the empty list;
\* what the loop did before stays done and total_packets is not updated.
\* handled lists the data points the loop made, returned or not.
process_raw_data(p, raw_data, t, gap) ==
    Bind(decode(p, raw_data), LAMBDA d :
    Bind(ProcessLoop(d.p, d.quaternions, <<>>, t, gap), LAMBDA r :
        IF r.raised
        THEN [p |-> r.p, processed_data |-> <<>>, handled |-> r.processed_data]
        ELSE [p |-> [r.p EXCEPT !.total_packets = @ + Len(d.quaternions)],
              processed_data |-> r.processed_data, handled |-> r.processed_data]))

(***************************************************************************)
(* The decoding pipeline and the filter as a state machine.                *)
(*                                                                         *)
(* script names what the caller does in a run: "frames" hands frames to    *)
(* process_raw_data of a processor (proc); the other scripts call          *)
(* filter_quaternion of a filter (filt) directly, "free" with any input of *)
(* FreeInputs and the remaining ones with the inputs of ScriptInput.       *)
(* clock is time.time().  frame, out and handled are the argument, the     *)
(* return value and the data points of the last process_raw_data, nframes  *)
(* the number of frames handed over so far; fin,                           *)
(* fout and fop are the argument, the return value and the kind ("first"   *)
(* on an uninitialized filter, "later", "reset") of the last operation on  *)
(* filt.  seen_invalid counts the decoded candidates with a NaN or         *)
(* infinite component or a magnitude more than 0.1 from 1, seen_malformed  *)
(* the custom packets with a wrong header, over all frames so far.         *)
(***************************************************************************)
VARIABLES script, clock, proc, frame, out, handled, nframes, seen_invalid,
          seen_malformed, filt, fin, fout, fop, fcalls, resets, twin

pipeVars == <<script, clock, proc, frame, out, handled, nframes, seen_invalid,
              seen_malformed, filt, fin, fout, fop, fcalls, resets, twin>>

VARIABLES stream, fed, carry, cands, feeds, split_inside

asciiVars == <<stream, fed, carry, cands, feeds, split_inside>>

VARIABLES est, rperiod, rphase, rbatch, rnow, narrivals, nupdates, first_update_at,
          last_new_rate

rateVars == <<est, rperiod, rphase, rbatch, rnow, narrivals, nupdates, first_update_at,
              last_new_rate>>

VARIABLES protocol, cb_kind, port_present, wire, in_waiting, port_open, running,
          read_buffer, bytes_received, packets_received,
          start_pc, stop_pc, rx_pc, drain_pc, stats_pc,
          queue, workers, finished, shutdown, read_result,
          cbs, emitted, delivered, emitted_at_stop, buffer_at_stop

serVars == <<protocol, cb_kind, port_present, wire, in_waiting, port_open, running,
             read_buffer, bytes_received, packets_received,
             start_pc, stop_pc, rx_pc, drain_pc, stats_pc,
             queue, workers, finished, shutdown, read_result,
             cbs, emitted, delivered, emitted_at_stop, buffer_at_stop>>

VARIABLES bin_in, bin_out, bin_done

binVars == <<bin_in, bin_out, bin_done>>

VARIABLES dp, dp_script, dp_log, dp_fill

convVars == <<dp, dp_script, dp_log, dp_fill>>

MaxFrames == 2
MaxFreeCalls == 3
MaxResets == 1
MaxDegenerateCalls == 3
ScriptLen == 30
MidScriptLen == 110
LongScriptLen == 2010
WrapScriptLen == 1030
RestartAt == 601
PauseAt == 20
TimeStep == 20000
LongDt == 2000000

\* The time between the samples of one frame
Gaps == {0, TimeStep}

\* "w,x,y,z\n" for four number texts
AsciiLine(w, x, y, z) ==
    Bytes(w \o <<",">> \o x \o <<",">> \o y \o <<",">> \o z \o <<"\n">>)

TxtHuge == <<"1", "e", "2", "0", "0">>
TxtNaN == <<"n", "a", "n">>
TxtInf == <<"i", "n", "f">>

AsciiFrames ==
    { AsciiLine(<<"1">>, <<"0">>, <<"0">>, <<"0">>),
      AsciiLine(<<"0", ".", "6">>, <<"0", ".", "8">>, <<"0">>, <<"0">>),
      AsciiLine(<<"1", ".", "0", "5">>, <<"0">>, <<"0">>, <<"0">>),
      AsciiLine(<<"5">>, <<"0">>, <<"0">>, <<"0">>),
      AsciiLine(TxtNaN, <<"0">>, <<"0">>, <<"0">>),
      AsciiLine(TxtHuge, <<"0">>, <<"0">>, <<"0">>),
      AsciiLine(<<"0">>, <<"1">>, <<"0">>, <<"0">>)
          \o AsciiLine(TxtHuge, <<"0">>, <<"0">>, <<"0">>),
      AsciiLine(<<"0", ".", "5">>, <<"0", ".", "5">>, <<"0", ".", "5">>, <<"0", ".", "5">>)
          \o AsciiLine(<<"-", "1">>, <<"0">>, <<"0">>, <<"0">>),
      AsciiLine(<<"0">>, TxtInf, <<"0">>, <<"0">>) \o Bytes(<<"0", ",", "1", ",">>) }

\* The little-endian bytes of some singles and of the two headers
F32Zero == <<0, 0, 0, 0>>
F32One == <<0, 0, 128, 63>>
F32Six == <<154, 153, 25, 63>>
F32Eight == <<205, 204, 76, 63>>
F32Five == <<0, 0, 160, 64>>
F32NaN == <<0, 0, 192, 127>>
MagicHeader == <<85, 170>>
WrongHeader == <<170, 85>>

CustomPacket(header, w, x, y, z) == header \o w \o x \o y \o z \o <<0, 0>>

GoodPacket == CustomPacket(MagicHeader, F32One, F32Zero, F32Zero, F32Zero)
BadPacket == CustomPacket(WrongHeader, F32One, F32Zero, F32Zero, F32Zero)

CustomFrames ==
    { GoodPacket,
      BadPacket,
      BadPacket \o BadPacket,
      BadPacket \o CustomPacket(MagicHeader, F32Six, F32Eight, F32Zero, F32Zero),
      CustomPacket(MagicHeader, F32Five, F32Zero, F32Zero, F32Zero) \o GoodPacket,
      CustomPacket(MagicHeader, F32NaN, F32Zero, F32Zero, F32Zero) }

Float32Frames ==
    { F32One \o F32Zero \o F32Zero \o F32Zero,
      F32Zero \o F32Six \o F32Eight \o F32Zero \o F32One \o F32Zero,
      F32Five \o F32Zero \o F32Zero \o F32Zero }

FramesOf(format) ==
    IF format = "ascii" THEN AsciiFrames
    ELSE IF format = "custom" THEN CustomFrames
    ELSE Float32Frames

\* A candidate the validation has to reject: a NaN or infinite component, or
\* a magnitude more than 0.1 from 1 (FHuge and FBig are such magnitudes).
InvalidCandidate(q) ==
    LET comps == <<q.w, q.x, q.y, q.z>>
    IN  \/ \E i \in 1..4 : IsSpecial(comps[i])
        \/ Abs(QNorm(q) - Scale) > max_quaternion_norm_deviation

CountInvalid(quaternions) ==
    Cardinality({i \in 1..Len(quaternions) : InvalidCandidate(quaternions[i])})

\* The 20-byte packets of a custom frame whose header is not the magic value
CountMalformed(data) ==
    Cardinality({n \in 1..(Len(data) \div custom_packet_size) :
                    ~custom_header_ok(data, (n - 1) * custom_packet_size + 1)})

\* The scripts that call the filter directly
FilterScripts == {"free", "steady", "ramp", "jump", "wobble", "slow", "sensor",
                  "still", "pause", "drift", "shake", "wrap", "restart"}
Scripts == {"frames", "degenerate"} \cup FilterScripts

\* The raw quaternions of script "free": unit ones, and valid ones that are
\* not unit.
FreeInputs ==
    { Quat(600000, 800000, 0, 0), Quat(500000, 500000, 500000, 500000),
      Quat(-Scale, 0, 0, 0), Quat(1050000, 0, 0, 0), Quat(0, 0, 950000, 0) }

\* The raw quaternions of script "degenerate": callers of the filter that do
\* not validate may pass a quaternion of norm zero.
DegenerateInputs == { ZeroQuat, Identity, Quat(600000, 800000, 0, 0) }

\* The Euler angles (roll, pitch, yaw) and the raw quaternion of call number
\* n + 1 of a script
ScriptAngles(s, n) ==
    IF s = "ramp" \/ s = "sensor" \/ s = "still" THEN <<n * 8727, 0, 0>>
    ELSE IF s = "jump" THEN (IF n < 22 THEN <<0, 0, 0>> ELSE <<87266, 52360, 34907>>)
    ELSE IF s = "wobble" \/ s = "restart"
         THEN (IF n % 2 = 0 THEN <<17453, 0, 17453>> ELSE <<-17453, 17453, 0>>)
    ELSE IF s = "slow" \/ s = "drift" \/ s = "pause" THEN <<n * 175, 174533, 349066>>
    ELSE IF s = "wrap" THEN <<2967060 + n * 175, 174533, 349066>>
    ELSE IF s = "shake" THEN (IF n % 6 < 3 THEN <<0, 0, 0>> ELSE <<523599, 0, 0>>)
    ELSE <<0, 0, 0>>

\* The number of calls of a script: "drift" runs past two periodic resets,
\* "wrap" past the first one, where its roll has just gone from 180 to -180
\* degrees, "restart" as far, with a reset() after RestartAt calls, and
\* "shake" past two updates of the reference.
ScriptLength(s) ==
    IF s = "drift" THEN LongScriptLen
    ELSE IF s = "wrap" \/ s = "restart" THEN WrapScriptLen
    ELSE IF s = "shake" THEN MidScriptLen
    ELSE ScriptLen

ScriptInput(s, n) ==
    LET a == ScriptAngles(s, n) IN euler_to_quaternion(a[1], a[2], a[3])

\* gyro_data (rad/s) and accel_data (m/s^2) of script "sensor"
SensorGyro == <<100000, 200000, 300000>>
SensorAccel == <<1000000, 2000000, 9000000>>
\* The scripts that pass gyro_data and accel_data; "still" reports a sensor
\* at rest, angular rate zero.
SensorScripts == {"sensor", "still"}
ScriptGyro(s) == IF s = "still" THEN <<0, 0, 0>> ELSE SensorGyro
\* The dt argument of call number n + 1 of a script: script "pause" passes
\* dt = LongDt on one call, for a sample that comes after a pause of the
\* stream; every other call leaves dt to the clock.
ScriptDt(s, n) == IF s = "pause" /\ n = PauseAt THEN Some(LongDt) ELSE None

\* ComplementaryFilter() and AdaptiveComplementaryFilter() with the defaults
\* of their constructors
ComplementaryFilter == NewFilter(700000, 600000, FALSE)
AdaptiveComplementaryFilter == NewFilter(980000, 980000, TRUE)

PipeInit ==
    /\ script \in Scripts
    /\ clock = 0
    /\ proc \in IF script = "frames" THEN {NewProcessor(TRUE), NewProcessor(FALSE)}
                ELSE {NewProcessor(TRUE)}
    /\ frame = <<>>
    /\ out = <<>>
    /\ handled = <<>>
    /\ nframes = 0
    /\ seen_invalid = 0
    /\ seen_malformed = 0
    /\ filt \in {ComplementaryFilter, AdaptiveComplementaryFilter}
    /\ fin = None
    /\ fout = None
    /\ fop = "none"
    /\ fcalls = 0
    /\ resets = 0
    /\ twin = None

\* The state of the pipeline variables in the runs that do not use them
PipeIdle ==
    /\ script = "idle"
    /\ clock = 0
    /\ proc = NewProcessor(TRUE)
    /\ frame = <<>>
    /\ out = <<>>
    /\ handled = <<>>
    /\ nframes = 0
    /\ seen_invalid = 0
    /\ seen_malformed = 0
    /\ filt = ComplementaryFilter
    /\ fin = None
    /\ fout = None
    /\ fop = "none"
    /\ fcalls = 0
    /\ resets = 0
    /\ twin = None

\* proc.set_data_format(format_name)
SetDataFormat(format_name) ==
    /\ script = "frames"
    /\ nframes < MaxFrames
    /\ proc.current_format # format_name
    /\ proc' = set_data_format(proc, format_name)
    /\ UNCHANGED <<script, clock, frame, out, handled, nframes, seen_invalid,
                   seen_malformed, filt, fin, fout, fop, fcalls, resets, twin>>
    /\ UNCHANGED <<asciiVars, rateVars, serVars, binVars, convVars>>

\* proc.process_raw_data(data); the samples of the frame are gap apart.
ProcessRawData(data, gap) ==
    /\ script = "frames"
    /\ nframes < MaxFrames
    /\ Bind(process_raw_data(proc, data, clock, gap), LAMBDA r :
           /\ proc' = r.p
           /\ out' = r.processed_data
           /\ handled' = r.handled
           /\ clock' = clock + gap * Len(r.handled) + TimeStep)
    /\ frame' = data
    /\ nframes' = nframes + 1
    /\ seen_invalid' = seen_invalid + CountInvalid(decode(proc, data).quaternions)
    /\ seen_malformed' = seen_malformed +
           (IF proc.current_format = "custom" THEN CountMalformed(data) ELSE 0)
    /\ UNCHANGED <<script, filt, fin, fout, fop, fcalls, resets, twin>>
    /\ UNCHANGED <<asciiVars, rateVars, serVars, binVars, convVars>>

\* filt.filter_quaternion(raw_quaternion, gyro_data, accel_data, dt) at the
\* next reading of the clock.  Once filt was reset, twin is a filter
\* constructed at the time of the reset() and given the same calls.
FilterCall(raw_quaternion, gyro_data, accel_data, dtArg) ==
    /\ clock' = clock + TimeStep
    /\ Bind([i \in 1..(IF IsNone(twin) THEN 1 ELSE 2) |->
                filter_quaternion(IF i = 1 THEN filt ELSE Val(twin).f, raw_quaternion,
                                  gyro_data, accel_data, dtArg, clock')],
            LAMBDA r : /\ filt' = r[1].f
                       /\ fout' = Some(r[1].q)
                       /\ twin' = IF IsNone(twin) THEN None
                                  ELSE Some([f |-> r[2].f, q |-> Some(r[2].q)]))
    /\ fin' = Some(raw_quaternion)
    /\ fop' = IF filt.initialized THEN "later" ELSE "first"
    /\ fcalls' = fcalls + 1
    /\ UNCHANGED <<script, proc, frame, out, handled, nframes, seen_invalid,
                   seen_malformed, resets>>
    /\ UNCHANGED <<asciiVars, rateVars, serVars, binVars, convVars>>

\* Script "free": any input, dt given or taken from the clock
FilterFree(raw_quaternion, dtArg) ==
    /\ script = "free"
    /\ fcalls < MaxFreeCalls
    /\ FilterCall(raw_quaternion, None, None, dtArg)

\* Script "degenerate": inputs that may have norm zero, dt taken from the clock
FilterDegenerate(raw_quaternion) ==
    /\ script = "degenerate"
    /\ fcalls < MaxDegenerateCalls
    /\ FilterCall(raw_quaternion, None, None, None)

\* The other scripts: the input of the script, dt taken from the clock
FilterScripted ==
    /\ script \in FilterScripts \ {"free"}
    /\ fcalls < ScriptLength(script)
    /\ FilterCall(ScriptInput(script, fcalls),
                  IF script \in SensorScripts THEN Some(ScriptGyro(script)) ELSE None,
                  IF script \in SensorScripts THEN Some(SensorAccel) ELSE None,
                  ScriptDt(script, fcalls))

\* filt.reset()
FilterReset ==
    /\ script = "free" \/ (script = "restart" /\ fcalls = RestartAt)
    /\ resets < MaxResets
    /\ fcalls >= 1
    /\ filt' = reset(filt)
    /\ twin' = Some([f |-> IF filt.adaptive THEN AdaptiveComplementaryFilter
                           ELSE ComplementaryFilter,
                     q |-> None])
    /\ fop' = "reset"
    /\ resets' = resets + 1
    /\ UNCHANGED <<script, clock, proc, frame, out, handled, nframes, seen_invalid,
                   seen_malformed, fin, fout, fcalls>>
    /\ UNCHANGED <<asciiVars, rateVars, serVars, binVars, convVars>>

\* One step of the pipeline and filter runs
PipeNext ==
    \/ \E format_name \in DataFormats : SetDataFormat(format_name)
    \/ \E data \in FramesOf(proc.current_format), gap \in Gaps : ProcessRawData(data, gap)
    \/ \E raw_quaternion \in FreeInputs, dtArg \in {None, Some(LongDt)} :
           FilterFree(raw_quaternion, dtArg)
    \/ \E raw_quaternion \in DegenerateInputs : FilterDegenerate(raw_quaternion)
    \/ FilterScripted
    \/ FilterReset

(***************************************************************************)
(* Re-framing of the ASCII decoder.  A stream of complete lines is fed to  *)
(* _parse_ascii_quaternion in parts; carry is the decoder's ascii_buffer,  *)
(* cands the candidates returned so far, fed the number of bytes given to  *)
(* the decoder, feeds the number of calls, split_inside whether a call     *)
(* ended inside a line.                                                    *)
(***************************************************************************)
MaxFeeds == 3

\* The line bodies and the delimiters the streams are made of
AsciiBodies ==
    { <<"1", ",", "0", ",", "0", ",", "0">>,
      <<"0", ",", "1", ",", "0", ",", "0">>,
      <<"0", ".", "6", ",", "-", "0", ".", "8", ",", "0", ",", "0">> }
AsciiDelimiters == { <<"\n">>, <<"\r", "\n">>, <<"\r">> }
AsciiLines == { Bytes(b \o d) : b \in AsciiBodies, d \in AsciiDelimiters }
AsciiStreams == AsciiLines \cup { a \o b : a \in AsciiLines, b \in AsciiLines }

AsciiInit ==
    /\ stream \in AsciiStreams
    /\ fed = 0
    /\ carry = <<>>
    /\ cands = <<>>
    /\ feeds = 0
    /\ split_inside = FALSE

AsciiIdle ==
    /\ stream = <<>>
    /\ fed = 0
    /\ carry = <<>>
    /\ cands = <<>>
    /\ feeds = 0
    /\ split_inside = FALSE

\* One call of _parse_ascii_quaternion with the next n bytes of the stream
AsciiFeed(n) ==
    /\ feeds < MaxFeeds
    /\ fed + n <= Len(stream)
    /\ Bind(parse_ascii_quaternion(carry, SubSeq(stream, fed + 1, fed + n)), LAMBDA r :
           /\ carry' = r.ascii_buffer
           /\ cands' = cands \o r.quaternions
           /\ split_inside' = (split_inside \/ r.ascii_buffer # <<>>))
    /\ fed' = fed + n
    /\ feeds' = feeds + 1
    /\ UNCHANGED stream
    /\ UNCHANGED <<pipeVars, rateVars, serVars, binVars, convVars>>

AsciiNext == \E n \in 1..Len(stream) : AsciiFeed(n)

(***************************************************************************)
(* The binary decoder.  bin_in is the frame given to                       *)
(* _parse_binary_quaternion, bin_out the candidates it returned, bin_done  *)
(* whether the call has been made.                                         *)
(***************************************************************************)
MaxChunks == 2

\* The bytes of some singles: big-endian 1.0, 0.6 and 0.8, and two whose
\* little-endian and big-endian readings are both numbers of ordinary size
\* (0.50196 and 1.0000075; 8.0312 and 1.0000077).
F32OneBE == <<63, 128, 0, 0>>
F32SixBE == <<63, 25, 153, 154>>
F32EightBE == <<63, 76, 204, 205>>
F32Both == <<63, 128, 0, 63>>
F32BigLittle == <<63, 128, 0, 65>>

\* Two chunks whose little-endian singles have a magnitude at the bounds:
\* 0.20380361, 6.8018519e-05, 1.9857086, 0.12419928 (magnitude 2.0) and
\* 0.044075839, 1.5879777e-05, 0.046261132, 0.076923519 (magnitude 0.1)
ChunkNearTwo ==
    <<229, 177, 80, 62, 42, 165, 142, 56, 179, 43, 254, 63, 49, 92, 254, 61>>
ChunkNearTenth ==
    <<222, 136, 52, 61, 144, 53, 133, 55, 80, 124, 61, 61, 20, 138, 157, 61>>

BinaryChunks ==
    { F32One \o F32Zero \o F32Zero \o F32Zero,
      F32Zero \o F32Zero \o F32Zero \o F32One,
      F32Six \o F32Eight \o F32Zero \o F32Zero,
      F32OneBE \o F32Zero \o F32Zero \o F32Zero,
      F32SixBE \o F32Zero \o F32EightBE \o F32Zero,
      F32Both \o F32Zero \o F32Zero \o F32Zero,
      F32BigLittle \o F32Zero \o F32Zero \o F32Zero,
      F32Five \o F32Zero \o F32Zero \o F32Zero,
      F32NaN \o F32One \o F32Zero \o F32Zero,
      F32Zero \o F32Zero \o F32Zero \o F32Zero,
      ChunkNearTwo,
      ChunkNearTenth }

\* The frames: up to MaxChunks chunks, followed or not by a part of a chunk
RECURSIVE BinaryFrames(_)
BinaryFrames(n) ==
    IF n = 0 THEN { <<>> }
    ELSE BinaryFrames(n - 1) \cup
         { a \o b : a \in BinaryFrames(n - 1), b \in BinaryChunks }

BinInit ==
    /\ bin_in \in { f \o t : f \in BinaryFrames(MaxChunks),
                             t \in { <<>>, <<0, 0, 128, 63, 0>> } }
    /\ bin_out = <<>>
    /\ bin_done = FALSE

BinIdle ==
    /\ bin_in = <<>>
    /\ bin_out = <<>>
    /\ bin_done = FALSE

\* One call of _parse_binary_quaternion with the frame
BinaryParse ==
    /\ ~bin_done
    /\ bin_out' = parse_binary_quaternion(bin_in)
    /\ bin_done' = TRUE
    /\ UNCHANGED bin_in
    /\ UNCHANGED <<pipeVars, asciiVars, rateVars, serVars, convVars>>

BinNext == BinaryParse

(***************************************************************************)
(* class DataProcessor and class DataFilter (data_processor.py): the       *)
(* conversion of raw bytes to a list of floats.  The values of the inputs  *)
(* are NaN or of magnitude at most FloatRange.                             *)
(***************************************************************************)
filter_threshold == 100000
cache_size == 1000
MaxConversions == 3

\* int(hex_value, 16) of two bytes as a signed 16-bit integer, as a float
hex_word(b0, b1) ==
    LET int_value == 256 * b0 + b1
    IN  (IF int_value > 32767 THEN int_value - 65536 ELSE int_value) * Scale

\* _convert_hex_data: one value per whole two bytes
RECURSIVE HexFrom(_, _)
HexFrom(raw_data, i) ==
    IF i + 1 > Len(raw_data) THEN <<>>
    ELSE <<hex_word(raw_data[i], raw_data[i + 1])>> \o HexFrom(raw_data, i + 2)

convert_hex_data(raw_data) == HexFrom(raw_data, 1)

\* The end of the digits of text from index i on (the index after the last)
RECURSIVE DigitsEnd(_, _)
DigitsEnd(text, i) ==
    IF i <= Len(text) /\ IsDigit(text[i]) THEN DigitsEnd(text, i + 1) ELSE i

\* The end of the match of -?\d+\.?\d* at index i of text, 0 without a match
NumberEnd(text, i) ==
    LET first == IF text[i] = 45 THEN i + 1 ELSE i
        last == DigitsEnd(text, first)
    IN  IF last = first THEN 0
        ELSE IF last <= Len(text) /\ text[last] = 46 THEN DigitsEnd(text, last + 1)
        ELSE last

\* re.findall(r'-?\d+\.?\d*', text) as floats
RECURSIVE NumbersFrom(_, _)
NumbersFrom(text, i) ==
    IF i > Len(text) THEN <<>>
    ELSE Bind(NumberEnd(text, i), LAMBDA e :
            IF e = 0 THEN NumbersFrom(text, i + 1)
            ELSE <<parse_float(SubSeq(text, i, e - 1)).v>> \o NumbersFrom(text, e))

\* _convert_ascii_data
convert_ascii_data(raw_data) == NumbersFrom(decode_ascii(raw_data), 1)

\* _convert_binary_data: one little-endian float32 per whole four bytes
RECURSIVE BinaryValuesFrom(_, _)
BinaryValuesFrom(raw_data, i) ==
    IF i + 3 > Len(raw_data) THEN <<>>
    ELSE <<unpack_float32(raw_data[i], raw_data[i + 1], raw_data[i + 2], raw_data[i + 3])>>
         \o BinaryValuesFrom(raw_data, i + 4)

convert_binary_data(raw_data) == BinaryValuesFrom(raw_data, 1)

\* abs(value - previous_value) > threshold; no comparison holds of NaN.
exceeds_threshold(value, previous_value) ==
    /\ value # FNaN
    /\ previous_value # FNaN
    /\ Abs(value - previous_value) > filter_threshold

\* DataFilter.filter_data from index i on: [previous_value, data]
RECURSIVE FilterFrom(_, _, _)
FilterFrom(previous_value, data, i) ==
    IF i > Len(data) THEN [previous_value |-> previous_value, data |-> <<>>]
    ELSE IF IsNone(previous_value) \/ exceeds_threshold(data[i], Val(previous_value))
         THEN Bind(FilterFrom(Some(data[i]), data, i + 1), LAMBDA r :
                  [r EXCEPT !.data = <<data[i]>> \o @])
         ELSE FilterFrom(previous_value, data, i + 1)

filter_data(previous_value, data) == FilterFrom(previous_value, data, 1)

\* DataProcessor.__init__ with the configuration: the data format, caching
\* and filtering.  data_cache maps raw bytes to results: hash(raw_data) is
\* taken to tell all raw bytes apart.
NewDataProcessor(data_format, enable_caching, enable_filtering) ==
    [data_format |-> data_format,
     enable_caching |-> enable_caching,
     enable_filtering |-> enable_filtering,
     data_cache |-> <<>>,
     cache_hits |-> 0,
     cache_misses |-> 0,
     previous_value |-> None]

\* The converter of the data format; None for "quaternion" and for a format
\* that is not known.
converted_by_format(data_format, raw_data) ==
    IF data_format = "hex" THEN Some(convert_hex_data(raw_data))
    ELSE IF data_format = "ascii" THEN Some(convert_ascii_data(raw_data))
    ELSE IF data_format = "binary" THEN Some(convert_binary_data(raw_data))
    ELSE None

\* The filtering and caching steps of _convert_data_format on the converted
\* list: [p, result]
filter_and_cache(p, raw_data, converted) ==
    Bind(IF p.enable_filtering /\ converted # <<>>
         THEN filter_data(p.previous_value, converted)
         ELSE [previous_value |-> p.previous_value, data |-> converted],
         LAMBDA f :
            [p |-> [p EXCEPT !.previous_value = f.previous_value,
                             !.data_cache =
                                 IF /\ p.enable_caching
                                    /\ f.data # <<>>
                                    /\ Cardinality(DOMAIN @) < cache_size
                                 THEN (raw_data :> f.data) @@ @
                                 ELSE @],
             result |-> Some(f.data)])

\* DataProcessor._convert_data_format: [p, result], result None or a list
convert_data_format(p0, raw_data) ==
    IF p0.enable_caching /\ raw_data \in DOMAIN p0.data_cache
    THEN [p |-> [p0 EXCEPT !.cache_hits = @ + 1], result |-> Some(p0.data_cache[raw_data])]
    ELSE Bind(IF p0.enable_caching THEN [p0 EXCEPT !.cache_misses = @ + 1] ELSE p0,
              LAMBDA p :
                Bind(converted_by_format(p.data_format, raw_data), LAMBDA converted :
                    IF IsNone(converted) THEN [p |-> p, result |-> None]
                    ELSE filter_and_cache(p, raw_data, Val(converted))))

\* The float32 0.65
F32SixFive == <<102, 102, 38, 63>>

\* The raw bytes the conversions are called with, by data format
ConvInputs(data_format) ==
    IF data_format = "binary"
    THEN { F32Six, F32Six \o F32Eight, F32Six \o F32SixFive, F32SixFive \o <<0, 0>>,
           F32NaN \o F32One, <<>> }
    ELSE IF data_format = "ascii"
    THEN { Bytes(<<"5">>), Bytes(<<"5", ".", "0", "5", ",", "-", "7", "\n">>),
           Bytes(<<"x", "~", "-", ".", "5", ".">>), <<>> }
    ELSE { <<0, 5>>, <<0, 5, 0, 5>>, <<0, 5, 0, 7>>, <<0, 7>>, <<255, 251, 0>>, <<>> }

\* Fill number k of script "full": the hex words k and 2000, which differ, so
\* that one of them passes the filter and the result is cached.
FillData(k) == <<k \div 256, k % 256, 7, 208>>

\* The float32 2.0, whose two hex words are 0 and 64
F32Two == <<0, 0, 0, 64>>

\* The raw bytes of script "formats": a float32, a hex word and a digit
FormatInputs == { F32Two, <<0, 5>>, Bytes(<<"5">>) }

ConvInit ==
    /\ dp_script \in {"fresh", "full", "formats"}
    /\ dp \in IF dp_script = "full" THEN {NewDataProcessor("hex", TRUE, TRUE)}
              ELSE IF dp_script = "formats"
              THEN {NewDataProcessor("hex", TRUE, f) : f \in BOOLEAN}
              ELSE {NewDataProcessor(fmt, c, f) :
                        fmt \in {"hex", "ascii", "binary", "quaternion"},
                        c \in BOOLEAN, f \in BOOLEAN}
    /\ dp_log = <<>>
    /\ dp_fill = 0

ConvIdle ==
    /\ dp_script = "idle"
    /\ dp = NewDataProcessor("hex", TRUE, TRUE)
    /\ dp_log = <<>>
    /\ dp_fill = 0

\* Script "full": conversions of distinct raw bytes until the cache holds
\* cache_size results
ConvFill ==
    /\ dp_script = "full"
    /\ Cardinality(DOMAIN dp.data_cache) < cache_size
    /\ dp' = convert_data_format(dp, FillData(dp_fill)).p
    /\ dp_fill' = dp_fill + 1
    /\ UNCHANGED <<dp_script, dp_log>>
    /\ UNCHANGED <<pipeVars, asciiVars, rateVars, serVars, binVars>>

\* One call of _convert_data_format; the log keeps the raw bytes, the result
\* and the data_format configured at the call.
ConvConvert(raw_data) ==
    /\ dp_script = "full" => Cardinality(DOMAIN dp.data_cache) >= cache_size
    /\ Len(dp_log) < MaxConversions
    /\ Bind(convert_data_format(dp, raw_data), LAMBDA r :
            /\ dp' = r.p
            /\ dp_log' = Append(dp_log, [raw_data |-> raw_data, result |-> r.result,
                                         data_format |-> dp.data_format]))
    /\ UNCHANGED <<dp_script, dp_fill>>
    /\ UNCHANGED <<pipeVars, asciiVars, rateVars, serVars, binVars>>

\* Script "formats": processor.config.processing.data_format = fmt between two
\* conversions on the same processor
ConvSetFormat(fmt) ==
    /\ dp_script = "formats"
    /\ Len(dp_log) < MaxConversions
    /\ fmt # dp.data_format
    /\ dp' = [dp EXCEPT !.data_format = fmt]
    /\ UNCHANGED <<dp_script, dp_log, dp_fill>>
    /\ UNCHANGED <<pipeVars, asciiVars, rateVars, serVars, binVars>>

ConvNext ==
    \/ ConvFill
    \/ \E raw_data \in IF dp_script = "formats" THEN FormatInputs
                        ELSE ConvInputs(dp.data_format) : ConvConvert(raw_data)
    \/ \E fmt \in {"hex", "binary", "ascii"} : ConvSetFormat(fmt)

(***************************************************************************)
(* The adaptive rate estimator of Quaternion3DVisualizer.  time.time() is  *)
(* a double; near the present epoch doubles are 2^-22 s apart, and that is *)
(* the tick the model counts timestamps in.  Real time is kept in subticks *)
(* (a 25th of a tick), so that 10 ms is 2^20 subticks exactly; a reading   *)
(* of the clock is the tick nearest to the real time.  Times are relative  *)
(* to a tick of the run; the epoch (time 0.0 of the code) lies far before. *)
(* Rates are fixed-point Hz.                                               *)
(***************************************************************************)
MaxArrivals == 50
MaxUpdates == 2

TicksPerSecond == 2 ^ 22
SubTicksPerTick == 5 * 5
TenMs == 2 ^ 20
\* 0.0 on the clock of the run
Epoch == -(2 ^ 30)

\* time.time() at real time t
ClockReading(t) == (t + SubTicksPerTick \div 2) \div SubTicksPerTick

timestamps_maxlen == 100
recent_count == 50
min_timestamps == 10
rate_update_interval == 2
initial_interpolation_factor == 150000
rate_alpha == 300000
render_rate_factor == 2500000
high_rate == 200
mid_rate == 100
low_rate == 50
factor_high == 80000
factor_mid == 120000
factor_low == 180000
factor_very_low == 250000

\* The estimator fields of a new visualizer
NewEstimator ==
    [data_timestamps |-> <<>>,
     detected_data_rate |-> 0,
     target_render_rate |-> 0,
     interpolation_factor |-> initial_interpolation_factor,
     last_rate_update |-> Epoch]

\* The intervals of _detect_data_rate: the differences of consecutive
\* timestamps that lie in [0.001 s, 1.0 s]
RateIntervals(recent_timestamps) ==
    LET all == [i \in 1..(Len(recent_timestamps) - 1) |->
                   recent_timestamps[i + 1] - recent_timestamps[i]]
    IN  SelectSeq(all, LAMBDA d : d * 1000 >= TicksPerSecond /\ d <= TicksPerSecond)

\* _detect_data_rate: 1 / (mean interval), 0 when there is nothing to go by
detect_data_rate(data_timestamps) ==
    LET recent_timestamps == LastN(data_timestamps, recent_count)
        intervals == RateIntervals(recent_timestamps)
    IN  IF Len(data_timestamps) < min_timestamps THEN 0
        ELSE IF Len(recent_timestamps) < 2 THEN 0
        ELSE IF intervals = <<>> THEN 0
        ELSE DivFloorN(Len(intervals) * TicksPerSecond, SeqSum(intervals))

\* The interpolation factor chosen for a detected rate
interpolation_factor_for(rate) ==
    IF rate >= high_rate * Scale THEN factor_high
    ELSE IF rate >= mid_rate * Scale THEN factor_mid
    ELSE IF rate >= low_rate * Scale THEN factor_low
    ELSE factor_very_low

\* _update_adaptive_parameters that blends the first measurement as well
update_adaptive_parameters_always_blend(e, current_time) ==
    LET new_detected_rate == detect_data_rate(e.data_timestamps)
        rate == Mul(rate_alpha, new_detected_rate)
                + Mul(Scale - rate_alpha, e.detected_data_rate)
    IN  IF current_time - e.last_rate_update >= rate_update_interval * TicksPerSecond
        THEN IF new_detected_rate > 0
             THEN [e EXCEPT !.last_rate_update = current_time,
                            !.detected_data_rate = rate,
                            !.target_render_rate = Mul(rate, render_rate_factor),
                            !.interpolation_factor = interpolation_factor_for(rate)]
             ELSE [e EXCEPT !.last_rate_update = current_time]
        ELSE e

\* _update_adaptive_parameters at clock reading current_time
update_adaptive_parameters(e, current_time) ==
    LET new_detected_rate == detect_data_rate(e.data_timestamps)
        rate == IF e.detected_data_rate = 0 THEN new_detected_rate
                ELSE Mul(rate_alpha, new_detected_rate)
                     + Mul(Scale - rate_alpha, e.detected_data_rate)
    IN  IF current_time - e.last_rate_update >= rate_update_interval * TicksPerSecond
        THEN IF new_detected_rate > 0
             THEN [e EXCEPT !.last_rate_update = current_time,
                            !.detected_data_rate = rate,
                            !.target_render_rate = Mul(rate, render_rate_factor),
                            !.interpolation_factor = interpolation_factor_for(rate)]
             ELSE [e EXCEPT !.last_rate_update = current_time]
        ELSE e

\* The arrival periods of the runs: 5, 10, 20, 40 and 80 ms
Periods == {TenMs \div 2, TenMs, 2 * TenMs, 4 * TenMs, 8 * TenMs}
\* The offsets of the first arrival from a tick, in subticks
Phases == {0, 13}
\* The samples per arrival: a frame of ten samples records ten equal
\* timestamps
Batches == {1, 2, 10}

RateInit ==
    /\ est = NewEstimator
    /\ rperiod \in Periods
    /\ rphase \in Phases
    /\ rbatch \in Batches
    /\ rnow = rphase
    /\ narrivals = 0
    /\ nupdates = 0
    /\ first_update_at = -1
    /\ last_new_rate = 0

RateIdle ==
    /\ est = NewEstimator
    /\ rperiod = 0
    /\ rphase = 0
    /\ rbatch = 0
    /\ rnow = 0
    /\ narrivals = 0
    /\ nupdates = 0
    /\ first_update_at = -1
    /\ last_new_rate = 0

RECURSIVE AppendTimes(_, _, _)
AppendTimes(ts, t, n) ==
    IF n = 0 THEN ts ELSE AppendTimes(AppendMax(ts, t, timestamps_maxlen), t, n - 1)

\* _process_data with a frame of rbatch samples, one period after the last:
\* the clock is read once and recorded for each sample.
RateArrival ==
    /\ narrivals < MaxArrivals
    /\ rperiod > 0
    /\ rnow' = rnow + rperiod
    /\ est' = [est EXCEPT !.data_timestamps = AppendTimes(@, ClockReading(rnow'), rbatch)]
    /\ narrivals' = narrivals + 1
    /\ UNCHANGED <<rperiod, rphase, rbatch, nupdates, first_update_at, last_new_rate>>
    /\ UNCHANGED <<pipeVars, asciiVars, serVars, binVars, convVars>>

\* The render loop calls _update_adaptive_parameters
RateUpdate ==
    /\ nupdates < MaxUpdates
    /\ rperiod > 0
    /\ est' = update_adaptive_parameters(est, ClockReading(rnow))
    /\ nupdates' = nupdates + 1
    /\ first_update_at' = IF nupdates = 0 THEN narrivals ELSE first_update_at
    /\ last_new_rate' = IF est'.last_rate_update # est.last_rate_update
                        THEN detect_data_rate(est.data_timestamps) ELSE last_new_rate
    /\ UNCHANGED <<rperiod, rphase, rbatch, rnow, narrivals>>
    /\ UNCHANGED <<pipeVars, asciiVars, serVars, binVars, convVars>>

RateNext == RateArrival \/ RateUpdate

(***************************************************************************)
(* SerialManager.  The coroutines run on one event loop: a step of a       *)
(* coroutine is the code from one await to the next.  The blocking calls   *)
(* (open, read, close, a plain data callback) are jobs of the              *)
(* ThreadPoolExecutor: they wait in queue, run on one of max_workers       *)
(* threads, and the coroutine that awaits a job resumes once the job is in *)
(* finished.  executor.shutdown(wait=True) blocks the event loop until the *)
(* queue and the workers are empty.                                        *)
(*                                                                         *)
(* wire holds the chunks the device is still to send, in_waiting the bytes *)
(* in the port's input buffer.  cbs are the tasks created for              *)
(* _call_data_callback, in creation order.  emitted lists the frames cut   *)
(* from read_buffer, delivered the frames whose data callback has begun to *)
(* execute; emitted_at_stop and buffer_at_stop record Len(emitted) and     *)
(* read_buffer at the call of stop().  receive_rate and last_stats_time    *)
(* are only logged and are left out.                                       *)
(***************************************************************************)
max_workers == 2
buffer_size == 8192
read_buffer_limit == 1000

Job(kind, owner, idx) == [kind |-> kind, owner |-> owner, idx |-> idx]
ConnectJob == Job("connect", "start", 0)
ReadJob == Job("read", "rx", 0)
CloseJob(owner) == Job("close", owner, 0)
CallbackJob(i) == Job("callback", "cb", i)

\* The event loop is blocked while stop() sits in executor.shutdown(wait=True)
LoopFree == stop_pc # "shutdown"

\* The condition of the while loop of _receive_data
receive_loop_condition(r, is_open) == r /\ is_open

\* A drain loop that does not look at running
process_loop_condition_always(r) == TRUE

\* The condition of the while loops of _process_buffer and _update_statistics
process_loop_condition(r) == r

IsDelimiter(b) == b = 10 \/ b = 13

\* bytes.rfind of the last '\n' or '\r': its position, 0 when there is none
LastDelimiter(buffer_data) ==
    LET at == {i \in 1..Len(buffer_data) : IsDelimiter(buffer_data[i])}
    IN  IF at = {} THEN 0 ELSE CHOOSE i \in at : \A j \in at : j <= i

\* A variant of process_buffer that cuts at the first delimiter.
process_buffer_first_delimiter(buffer) ==
    LET at == {i \in 1..Len(buffer) : IsDelimiter(buffer[i])}
        first == IF at = {} THEN 0 ELSE CHOOSE i \in at : \A j \in at : i <= j
    IN  IF first > 0
        THEN [read_buffer |-> SubSeq(buffer, first + 1, Len(buffer)),
              batch |-> Some(SubSeq(buffer, 1, first))]
        ELSE IF Len(buffer) > read_buffer_limit
             THEN [read_buffer |-> <<>>, batch |-> Some(buffer)]
        ELSE [read_buffer |-> buffer, batch |-> None]

\* The locked block of one iteration of _process_buffer: the buffer it
\* leaves and the batch it dispatches (None when it dispatches nothing).
process_buffer(buffer) ==
    LET last_newline == LastDelimiter(buffer)
    IN  IF Len(buffer) = 0 THEN [read_buffer |-> buffer, batch |-> None]
        ELSE IF last_newline > 0
             THEN [read_buffer |-> SubSeq(buffer, last_newline + 1, Len(buffer)),
                   batch |-> Some(SubSeq(buffer, 1, last_newline))]
        ELSE IF Len(buffer) > read_buffer_limit
             THEN [read_buffer |-> <<>>, batch |-> Some(buffer)]
        ELSE [read_buffer |-> buffer, batch |-> None]

\* A variant of create_task that runs the callback to its end at once, as
\* awaiting it in the locked block would.
create_task_awaited(tasks, batch_data) ==
    Append(tasks, [data |-> batch_data, st |-> "done"])

\* asyncio.create_task(self._call_data_callback(batch_data)): the task is
\* scheduled and has not begun.
create_task(tasks, batch_data) ==
    Append(tasks, [data |-> batch_data, st |-> "task"])

\* The callback invocations that have begun and not ended
ActiveCallbacks ==
    Cardinality({i \in 1..Len(cbs) : cbs[i].st \in {"suspended", "running"}})

\* A float32 sample (0.9999, 0.01, 0, 0); the low byte of 0.01 is 0x0A
F32Near == <<185, 252, 127, 63>>
F32Hundredth == <<10, 215, 35, 60>>
SampleWithNewline == F32Near \o F32Hundredth \o F32Zero \o F32Zero
SampleIdentity == F32One \o F32Zero \o F32Zero \o F32Zero

\* A line with no end
LongLine == [i \in 1..(read_buffer_limit + 1) |-> 49]

\* The protocols and what the device sends, in chunks
Wires ==
    { <<"ascii", << Bytes(<<"1", ",", "0", ",", "0", ",", "0", "\n">>),
                    Bytes(<<"0", ",", "1", ",", "0", ",", "0", "\n", "0", ",">>) >> >>,
      <<"ascii", << LongLine >> >>,
      <<"float32", << SampleWithNewline, SampleWithNewline >> >>,
      <<"float32", << SampleIdentity >> >> }

SerInit ==
    /\ \E w \in Wires : protocol = w[1] /\ wire = w[2]
    /\ cb_kind \in {"coroutine", "plain"}
    /\ port_present \in BOOLEAN
    /\ in_waiting = <<>>
    /\ port_open = FALSE
    /\ running = FALSE
    /\ read_buffer = <<>>
    /\ bytes_received = 0
    /\ packets_received = 0
    /\ start_pc = "init"
    /\ stop_pc = "init"
    /\ rx_pc = "none"
    /\ drain_pc = "none"
    /\ stats_pc = "none"
    /\ queue = <<>>
    /\ workers = {}
    /\ finished = {}
    /\ shutdown = FALSE
    /\ read_result = <<>>
    /\ cbs = <<>>
    /\ emitted = <<>>
    /\ delivered = <<>>
    /\ emitted_at_stop = 0
    /\ buffer_at_stop = <<>>

SerIdle ==
    /\ protocol = "none"
    /\ wire = <<>>
    /\ cb_kind = "none"
    /\ port_present = FALSE
    /\ in_waiting = <<>>
    /\ port_open = FALSE
    /\ running = FALSE
    /\ read_buffer = <<>>
    /\ bytes_received = 0
    /\ packets_received = 0
    /\ start_pc = "init"
    /\ stop_pc = "init"
    /\ rx_pc = "none"
    /\ drain_pc = "none"
    /\ stats_pc = "none"
    /\ queue = <<>>
    /\ workers = {}
    /\ finished = {}
    /\ shutdown = FALSE
    /\ read_result = <<>>
    /\ cbs = <<>>
    /\ emitted = <<>>
    /\ delivered = <<>>
    /\ emitted_at_stop = 0
    /\ buffer_at_stop = <<>>

\* start() up to the await in connect(): the port is opened in the executor
SerStart ==
    /\ protocol # "none"
    /\ start_pc = "init"
    /\ start_pc' = "connecting"
    /\ queue' = Append(queue, ConnectJob)
    /\ UNCHANGED <<protocol, cb_kind, port_present, wire, in_waiting, port_open, running,
                   read_buffer, bytes_received, packets_received,
                   stop_pc, rx_pc, drain_pc, stats_pc,
                   workers, finished, shutdown, read_result,
                   cbs, emitted, delivered, emitted_at_stop, buffer_at_stop>>
    /\ UNCHANGED <<pipeVars, asciiVars, rateVars, binVars, convVars>>

\* start() after connect(): return when the port is not open, else set
\* running, create the three tasks and await gather
StartConnected ==
    /\ LoopFree
    /\ start_pc = "connecting"
    /\ ConnectJob \in finished
    /\ finished' = finished \ {ConnectJob}
    /\ IF port_open
       THEN /\ running' = TRUE
            /\ rx_pc' = "loop"
            /\ drain_pc' = "loop"
            /\ stats_pc' = "loop"
            /\ start_pc' = "gather"
       ELSE /\ start_pc' = "returned"
            /\ UNCHANGED <<running, rx_pc, drain_pc, stats_pc>>
    /\ UNCHANGED <<protocol, cb_kind, port_present, wire, in_waiting, port_open,
                   read_buffer, bytes_received, packets_received,
                   stop_pc, queue, workers, shutdown, read_result,
                   cbs, emitted, delivered, emitted_at_stop, buffer_at_stop>>
    /\ UNCHANGED <<pipeVars, asciiVars, rateVars, binVars, convVars>>

\* _receive_data from the loop condition to the await of the read; a submit
\* to an executor that is shut down raises, and the loop sleeps and retries.
RxIterate ==
    /\ LoopFree
    /\ rx_pc = "loop"
    /\ IF receive_loop_condition(running, port_open)
       THEN IF shutdown
            THEN UNCHANGED <<rx_pc, queue>>
            ELSE /\ queue' = Append(queue, ReadJob)
                 /\ rx_pc' = "reading"
       ELSE /\ rx_pc' = "done"
            /\ UNCHANGED queue
    /\ UNCHANGED <<protocol, cb_kind, port_present, wire, in_waiting, port_open, running,
                   read_buffer, bytes_received, packets_received,
                   start_pc, stop_pc, drain_pc, stats_pc,
                   workers, finished, shutdown, read_result,
                   cbs, emitted, delivered, emitted_at_stop, buffer_at_stop>>
    /\ UNCHANGED <<pipeVars, asciiVars, rateVars, binVars, convVars>>

\* _receive_data from the result of the read to the sleep
RxResume ==
    /\ LoopFree
    /\ rx_pc = "reading"
    /\ ReadJob \in finished
    /\ finished' = finished \ {ReadJob}
    /\ read_buffer' = read_buffer \o read_result
    /\ bytes_received' = bytes_received + Len(read_result)
    /\ read_result' = <<>>
    /\ rx_pc' = "loop"
    /\ UNCHANGED <<protocol, cb_kind, port_present, wire, in_waiting, port_open, running,
                   packets_received, start_pc, stop_pc, drain_pc, stats_pc,
                   queue, workers, shutdown,
                   cbs, emitted, delivered, emitted_at_stop, buffer_at_stop>>
    /\ UNCHANGED <<pipeVars, asciiVars, rateVars, binVars, convVars>>

\* One iteration of _process_buffer, from the loop condition to the sleep
DrainIterate ==
    /\ LoopFree
    /\ drain_pc = "loop"
    /\ IF process_loop_condition(running)
       THEN LET r == process_buffer(read_buffer)
            IN  /\ read_buffer' = r.read_buffer
                /\ IF IsNone(r.batch)
                   THEN UNCHANGED <<cbs, emitted, packets_received>>
                   ELSE /\ cbs' = create_task(cbs, Val(r.batch))
                        /\ emitted' = Append(emitted, Val(r.batch))
                        /\ packets_received' = packets_received + 1
                /\ UNCHANGED drain_pc
       ELSE /\ drain_pc' = "done"
            /\ UNCHANGED <<read_buffer, cbs, emitted, packets_received>>
    /\ UNCHANGED <<protocol, cb_kind, port_present, wire, in_waiting, port_open, running,
                   bytes_received, start_pc, stop_pc, rx_pc, stats_pc,
                   queue, workers, finished, shutdown, read_result,
                   delivered, emitted_at_stop, buffer_at_stop>>
    /\ UNCHANGED <<pipeVars, asciiVars, rateVars, binVars, convVars>>

\* The steps that hold buffer_lock: _receive_data with data read, and every
\* iteration of _process_buffer.  No step ends with the lock held: the
\* locked blocks hold no await.
HoldsBufferLock ==
    \/ RxResume /\ read_result # <<>>
    \/ DrainIterate /\ process_loop_condition(running)

\* One iteration of _update_statistics; elapsed tells whether a second has
\* passed since the last reset of the statistics.
StatsIterate(elapsed) ==
    /\ LoopFree
    /\ stats_pc = "loop"
    /\ IF process_loop_condition(running)
       THEN /\ bytes_received' = IF elapsed THEN 0 ELSE bytes_received
            /\ UNCHANGED stats_pc
       ELSE /\ stats_pc' = "done"
            /\ UNCHANGED bytes_received
    /\ UNCHANGED <<protocol, cb_kind, port_present, wire, in_waiting, port_open, running,
                   read_buffer, packets_received,
                   start_pc, stop_pc, rx_pc, drain_pc,
                   queue, workers, finished, shutdown, read_result,
                   cbs, emitted, delivered, emitted_at_stop, buffer_at_stop>>
    /\ UNCHANGED <<pipeVars, asciiVars, rateVars, binVars, convVars>>

\* start() after gather: the finally block calls disconnect()
StartGathered ==
    /\ LoopFree
    /\ start_pc = "gather"
    /\ rx_pc = "done" /\ drain_pc = "done" /\ stats_pc = "done"
    /\ IF port_open /\ ~shutdown
       THEN /\ queue' = Append(queue, CloseJob("start"))
            /\ start_pc' = "closing"
       ELSE /\ start_pc' = "returned"
            /\ UNCHANGED queue
    /\ UNCHANGED <<protocol, cb_kind, port_present, wire, in_waiting, port_open, running,
                   read_buffer, bytes_received, packets_received,
                   stop_pc, rx_pc, drain_pc, stats_pc,
                   workers, finished, shutdown, read_result,
                   cbs, emitted, delivered, emitted_at_stop, buffer_at_stop>>
    /\ UNCHANGED <<pipeVars, asciiVars, rateVars, binVars, convVars>>

\* start() after the close of its disconnect()
StartClosed ==
    /\ LoopFree
    /\ start_pc = "closing"
    /\ CloseJob("start") \in finished
    /\ finished' = finished \ {CloseJob("start")}
    /\ start_pc' = "returned"
    /\ UNCHANGED <<protocol, cb_kind, port_present, wire, in_waiting, port_open, running,
                   read_buffer, bytes_received, packets_received,
                   stop_pc, rx_pc, drain_pc, stats_pc,
                   queue, workers, shutdown, read_result,
                   cbs, emitted, delivered, emitted_at_stop, buffer_at_stop>>
    /\ UNCHANGED <<pipeVars, asciiVars, rateVars, binVars, convVars>>

\* stop() on a running channel, up to the await in disconnect()
SerStop ==
    /\ stop_pc = "init"
    /\ start_pc = "gather"
    /\ running
    /\ running' = FALSE
    /\ emitted_at_stop' = Len(emitted)
    /\ buffer_at_stop' = read_buffer
    /\ IF port_open
       THEN /\ queue' = Append(queue, CloseJob("stop"))
            /\ stop_pc' = "closing"
            /\ UNCHANGED shutdown
       ELSE /\ shutdown' = TRUE
            /\ stop_pc' = "shutdown"
            /\ UNCHANGED queue
    /\ UNCHANGED <<protocol, cb_kind, port_present, wire, in_waiting, port_open,
                   read_buffer, bytes_received, packets_received,
                   start_pc, rx_pc, drain_pc, stats_pc,
                   workers, finished, read_result,
                   cbs, emitted, delivered>>
    /\ UNCHANGED <<pipeVars, asciiVars, rateVars, binVars, convVars>>

\* stop() after disconnect(): executor.shutdown(wait=True) begins
StopClosed ==
    /\ stop_pc = "closing"
    /\ CloseJob("stop") \in finished
    /\ finished' = finished \ {CloseJob("stop")}
    /\ shutdown' = TRUE
    /\ stop_pc' = "shutdown"
    /\ UNCHANGED <<protocol, cb_kind, port_present, wire, in_waiting, port_open, running,
                   read_buffer, bytes_received, packets_received,
                   start_pc, rx_pc, drain_pc, stats_pc,
                   queue, workers, read_result,
                   cbs, emitted, delivered, emitted_at_stop, buffer_at_stop>>
    /\ UNCHANGED <<pipeVars, asciiVars, rateVars, binVars, convVars>>

\* executor.shutdown(wait=True) returns once every job has run; stop() ends
StopShutdownDone ==
    /\ stop_pc = "shutdown"
    /\ queue = <<>>
    /\ workers = {}
    /\ stop_pc' = "done"
    /\ UNCHANGED <<protocol, cb_kind, port_present, wire, in_waiting, port_open, running,
                   read_buffer, bytes_received, packets_received,
                   start_pc, rx_pc, drain_pc, stats_pc,
                   queue, workers, finished, shutdown, read_result,
                   cbs, emitted, delivered, emitted_at_stop, buffer_at_stop>>
    /\ UNCHANGED <<pipeVars, asciiVars, rateVars, binVars, convVars>>

\* The oldest task of _call_data_callback that has not run yet
NextTask ==
    LET waiting == {i \in 1..Len(cbs) : cbs[i].st = "task"}
    IN  IF waiting = {} THEN 0 ELSE CHOOSE i \in waiting : \A j \in waiting : i <= j

\* _call_data_callback begins.  A coroutine callback executes on the event
\* loop and either runs to its end or is suspended at an await of its own;
\* a plain callback is submitted to the executor, which raises once it is
\* shut down.
CbRun(suspends) ==
    /\ LoopFree
    /\ NextTask > 0
    /\ LET i == NextTask
       IN  IF cb_kind = "coroutine"
           THEN /\ cbs' = [cbs EXCEPT ![i].st = IF suspends THEN "suspended" ELSE "done"]
                /\ delivered' = Append(delivered, cbs[i].data)
                /\ UNCHANGED queue
           ELSE IF shutdown
                THEN /\ cbs' = [cbs EXCEPT ![i].st = "failed"]
                     /\ UNCHANGED <<delivered, queue>>
                ELSE /\ cbs' = [cbs EXCEPT ![i].st = "queued"]
                     /\ queue' = Append(queue, CallbackJob(i))
                     /\ UNCHANGED delivered
    /\ UNCHANGED <<protocol, cb_kind, port_present, wire, in_waiting, port_open, running,
                   read_buffer, bytes_received, packets_received,
                   start_pc, stop_pc, rx_pc, drain_pc, stats_pc,
                   workers, finished, shutdown, read_result,
                   emitted, emitted_at_stop, buffer_at_stop>>
    /\ UNCHANGED <<pipeVars, asciiVars, rateVars, binVars, convVars>>

\* A suspended coroutine callback resumes and runs to its end
CbResume(i) ==
    /\ LoopFree
    /\ i \in 1..Len(cbs)
    /\ cbs[i].st = "suspended"
    /\ cbs' = [cbs EXCEPT ![i].st = "done"]
    /\ UNCHANGED <<protocol, cb_kind, port_present, wire, in_waiting, port_open, running,
                   read_buffer, bytes_received, packets_received,
                   start_pc, stop_pc, rx_pc, drain_pc, stats_pc,
                   queue, workers, finished, shutdown, read_result,
                   emitted, delivered, emitted_at_stop, buffer_at_stop>>
    /\ UNCHANGED <<pipeVars, asciiVars, rateVars, binVars, convVars>>

\* A free worker thread takes the oldest job of the queue.  The thread that
\* took a plain data callback has yet to call it.
JobStart ==
    /\ queue # <<>>
    /\ Cardinality(workers) < max_workers
    /\ LET job == Head(queue)
       IN  /\ workers' = workers \cup {job}
           /\ cbs' = IF job.kind = "callback" THEN [cbs EXCEPT ![job.idx].st = "taken"]
                     ELSE cbs
    /\ queue' = Tail(queue)
    /\ UNCHANGED <<protocol, cb_kind, port_present, wire, in_waiting, port_open, running,
                   read_buffer, bytes_received, packets_received,
                   start_pc, stop_pc, rx_pc, drain_pc, stats_pc,
                   finished, shutdown, read_result,
                   emitted, delivered, emitted_at_stop, buffer_at_stop>>
    /\ UNCHANGED <<pipeVars, asciiVars, rateVars, binVars, convVars>>

\* The worker thread that took callback task i calls the data callback: the
\* callback begins to execute.  The worker threads run on their own, and
\* nothing orders the calls of two of them.
CbBegin(i) ==
    /\ i \in 1..Len(cbs)
    /\ cbs[i].st = "taken"
    /\ cbs' = [cbs EXCEPT ![i].st = "running"]
    /\ delivered' = Append(delivered, cbs[i].data)
    /\ UNCHANGED <<protocol, cb_kind, port_present, wire, in_waiting, port_open, running,
                   read_buffer, bytes_received, packets_received,
                   start_pc, stop_pc, rx_pc, drain_pc, stats_pc,
                   queue, workers, finished, shutdown, read_result,
                   emitted, emitted_at_stop, buffer_at_stop>>
    /\ UNCHANGED <<pipeVars, asciiVars, rateVars, binVars, convVars>>

\* A worker thread ends its job: serial.Serial(...) opens the port when
\* there is one, _read_serial_data takes the waiting bytes of an open port,
\* close() closes it, a plain data callback returns.
JobFinish(job) ==
    /\ job \in workers
    /\ job.kind = "callback" => cbs[job.idx].st = "running"
    /\ workers' = workers \ {job}
    /\ finished' = IF job.kind = "callback" THEN finished ELSE finished \cup {job}
    /\ port_open' = IF job.kind = "connect" THEN port_present
                    ELSE IF job.kind = "close" THEN FALSE
                    ELSE port_open
    /\ IF job.kind = "read" /\ port_open
       THEN LET max_read == Min(Len(in_waiting), buffer_size)
            IN  /\ read_result' = SubSeq(in_waiting, 1, max_read)
                /\ in_waiting' = SubSeq(in_waiting, max_read + 1, Len(in_waiting))
       ELSE IF job.kind = "close"
            THEN /\ in_waiting' = <<>>
                 /\ UNCHANGED read_result
       ELSE UNCHANGED <<read_result, in_waiting>>
    /\ cbs' = IF job.kind = "callback" THEN [cbs EXCEPT ![job.idx].st = "done"] ELSE cbs
    /\ UNCHANGED <<protocol, cb_kind, port_present, wire, running,
                   read_buffer, bytes_received, packets_received,
                   start_pc, stop_pc, rx_pc, drain_pc, stats_pc,
                   queue, shutdown,
                   emitted, delivered, emitted_at_stop, buffer_at_stop>>
    /\ UNCHANGED <<pipeVars, asciiVars, rateVars, binVars, convVars>>

\* disconnect() called on a running channel by the owner of the manager,
\* without stop(): up to the await of the close in the executor
Disconnect ==
    /\ LoopFree
    /\ start_pc = "gather"
    /\ stop_pc = "init"
    /\ running
    /\ port_open
    /\ CloseJob("caller") \notin workers \cup finished
    /\ \A k \in 1..Len(queue) : queue[k] # CloseJob("caller")
    /\ queue' = Append(queue, CloseJob("caller"))
    /\ UNCHANGED <<protocol, cb_kind, port_present, wire, in_waiting, port_open, running,
                   read_buffer, bytes_received, packets_received,
                   start_pc, stop_pc, rx_pc, drain_pc, stats_pc,
                   workers, finished, shutdown, read_result,
                   cbs, emitted, delivered, emitted_at_stop, buffer_at_stop>>
    /\ UNCHANGED <<pipeVars, asciiVars, rateVars, binVars, convVars>>

\* The caller's disconnect() after the close: it returns
Disconnected ==
    /\ LoopFree
    /\ CloseJob("caller") \in finished
    /\ finished' = finished \ {CloseJob("caller")}
    /\ UNCHANGED <<protocol, cb_kind, port_present, wire, in_waiting, port_open, running,
                   read_buffer, bytes_received, packets_received,
                   start_pc, stop_pc, rx_pc, drain_pc, stats_pc,
                   queue, workers, shutdown, read_result,
                   cbs, emitted, delivered, emitted_at_stop, buffer_at_stop>>
    /\ UNCHANGED <<pipeVars, asciiVars, rateVars, binVars, convVars>>

\* The device sends its next chunk to the open port
DeviceSend ==
    /\ port_open
    /\ wire # <<>>
    /\ in_waiting' = in_waiting \o Head(wire)
    /\ wire' = Tail(wire)
    /\ UNCHANGED <<protocol, cb_kind, port_present, port_open, running,
                   read_buffer, bytes_received, packets_received,
                   start_pc, stop_pc, rx_pc, drain_pc, stats_pc,
                   queue, workers, finished, shutdown, read_result,
                   cbs, emitted, delivered, emitted_at_stop, buffer_at_stop>>
    /\ UNCHANGED <<pipeVars, asciiVars, rateVars, binVars, convVars>>

SerNext ==
    \/ SerStart
    \/ StartConnected
    \/ RxIterate
    \/ RxResume
    \/ DrainIterate
    \/ \E elapsed \in BOOLEAN : StatsIterate(elapsed)
    \/ StartGathered
    \/ StartClosed
    \/ SerStop
    \/ StopClosed
    \/ StopShutdownDone
    \/ \E suspends \in BOOLEAN : CbRun(suspends)
    \/ \E i \in 1..Len(cbs) : CbResume(i)
    \/ JobStart
    \/ \E i \in 1..Len(cbs) : CbBegin(i)
    \/ \E job \in workers : JobFinish(job)
    \/ Disconnect
    \/ Disconnected
    \/ DeviceSend

(***************************************************************************)
(* The specifications.  Each one runs one part of the program; the         *)
(* variables of the other parts stay at their idle values.                 *)
(***************************************************************************)
vars == <<pipeVars, asciiVars, rateVars, serVars, binVars, convVars>>

Init == PipeInit /\ AsciiIdle /\ RateIdle /\ SerIdle /\ BinIdle /\ ConvIdle
Spec == Init /\ [][PipeNext]_vars

InitBinary == PipeIdle /\ AsciiIdle /\ RateIdle /\ SerIdle /\ BinInit /\ ConvIdle
SpecBinary == InitBinary /\ [][BinNext]_vars

InitConvert == PipeIdle /\ AsciiIdle /\ RateIdle /\ SerIdle /\ BinIdle /\ ConvInit
SpecConvert == InitConvert /\ [][ConvNext]_vars

InitAscii == PipeIdle /\ AsciiInit /\ RateIdle /\ SerIdle /\ BinIdle /\ ConvIdle
SpecAscii == InitAscii /\ [][AsciiNext]_vars

InitRate == PipeIdle /\ AsciiIdle /\ RateInit /\ SerIdle /\ BinIdle /\ ConvIdle
SpecRate == InitRate /\ [][RateNext]_vars

InitSerial == PipeIdle /\ AsciiIdle /\ RateIdle /\ SerInit /\ BinIdle /\ ConvIdle
SpecSerial == InitSerial /\ [][SerNext]_vars

\* The scheduling of a SerialManager run: the event loop runs every task
\* that is ready, a free worker thread takes the next job, and every job
\* (a read bounded by the port's timeout, an open, a close, a data callback)
\* ends.  Nothing obliges the caller to call stop() or the device to send.
SerFairness ==
    /\ WF_vars(StartConnected)
    /\ WF_vars(RxIterate)
    /\ WF_vars(RxResume)
    /\ WF_vars(DrainIterate)
    /\ WF_vars(\E elapsed \in BOOLEAN : StatsIterate(elapsed))
    /\ WF_vars(StartGathered)
    /\ WF_vars(StartClosed)
    /\ WF_vars(StopClosed)
    /\ WF_vars(StopShutdownDone)
    /\ WF_vars(\E suspends \in BOOLEAN : CbRun(suspends))
    /\ WF_vars(\E i \in 1..Len(cbs) : CbResume(i))
    /\ WF_vars(JobStart)
    /\ WF_vars(\E i \in 1..Len(cbs) : CbBegin(i))
    /\ WF_vars(\E job \in workers : JobFinish(job))
    /\ WF_vars(Disconnected)

SpecSerialFair == InitSerial /\ [][SerNext]_vars /\ SerFairness

(***************************************************************************)
(* The properties                                                          *)
(***************************************************************************)
\* C1: in ASCII format, a stream of delimiter-terminated lines fed to the
\* decoder in successive parts, split anywhere (inside a line too), yields
\* the same candidates as the whole stream fed in one call.
ReframingInvariant ==
    fed = Len(stream) => cands = parse_ascii_quaternion(<<>>, stream).quaternions

\* A stream of two lines fed in two parts, the first ending inside a line
ReframingWitness ==
    /\ fed = Len(stream)
    /\ feeds = 2
    /\ split_inside
    /\ Len(cands) = 2

\* C2: with validation enabled, process_raw_data makes no data point from a
\* decoded candidate that has a NaN or infinite component or a magnitude
\* more than 0.1 from 1, and invalid_packets counts every such candidate.
InvalidCandidatesCounted ==
    (script = "frames" /\ proc.validation_enabled) =>
        /\ \A i \in 1..Len(handled) : ~InvalidCandidate(handled[i].candidate)
        /\ proc.invalid_packets = seen_invalid

\* C3: in custom format, a frame of packets with a wrong header only yields
\* no sample, and processing a frame adds one to invalid_packets for each
\* packet with a wrong header (and one for each invalid candidate).
MalformedPacketsCounted ==
    [][(nframes' = nframes + 1 /\ proc.current_format = "custom") =>
          /\ (CountMalformed(frame') * custom_packet_size = Len(frame') => out' = <<>>)
          /\ proc'.invalid_packets =
                 proc.invalid_packets + CountMalformed(frame')
                     + CountInvalid(parse_custom_quaternion(frame'))]_vars

\* C4: the first filter call on an uninitialized filter (new or reset, base
\* or adaptive) with a unit quaternion returns the same components, makes
\* it the single entry of the history and the filtered quaternion, sets
\* initialized, applies no drift correction, leaves the reference unset and
\* does not increment filter_count.
FirstCallSeeds ==
    [][(fcalls' = fcalls + 1 /\ ~filt.initialized /\ QNorm(Val(fin')) = Scale) =>
          /\ Val(fout') = Val(fin')
          /\ filt'.quaternion_history = <<Val(fin')>>
          /\ filt'.filtered_quaternion = fin'
          /\ filt'.initialized
          /\ IsNone(filt'.reference_quaternion)
          /\ filt'.filter_count = filt.filter_count
          /\ filt'.drift_corrections_applied = filt.drift_corrections_applied
          /\ filt'.total_drift_correction = filt.total_drift_correction]_vars

\* The first call after a reset of an adaptive filter, with a unit quaternion
FirstCallWitness ==
    /\ fop = "first"
    /\ resets = 1
    /\ filt.adaptive
    /\ fin = Some(Quat(600000, 800000, 0, 0))
    /\ fout = fin
    /\ filt.filter_count = 0

\* C5: after a re-estimation that produced a rate, the interpolation factor
\* is the four-tier step function of the detected rate; and on a fresh
\* estimator 50 arrivals 10 ms apart give a detected rate within 1% of
\* 100 Hz and the interpolation factor 0.12.
HundredHertzTier ==
    /\ (nupdates >= 1 /\ est.detected_data_rate > 0) =>
           est.interpolation_factor = interpolation_factor_for(est.detected_data_rate)
    /\ (rperiod = TenMs /\ rbatch = 1 /\ narrivals = 50 /\ nupdates = 1
            /\ first_update_at = 50) =>
           /\ Abs(est.detected_data_rate - mid_rate * Scale) <= (mid_rate * Scale) \div 100
           /\ est.interpolation_factor = factor_mid

\* C6: no two invocations of the data callback execute at the same time.
CallbacksOneAtATime == ActiveCallbacks <= 1

\* C7: after stop() is called on a running channel, the receive, drain and
\* statistics loops terminate and start() returns, and no drain step cuts
\* a frame from the buffer any more.
StopUnwinds ==
    /\ (stop_pc # "init") ~>
           (rx_pc = "done" /\ drain_pc = "done" /\ stats_pc = "done"
               /\ start_pc = "returned")
    /\ [][stop_pc # "init" => emitted' = emitted]_vars

\* A channel that cut a frame, was stopped with bytes in its buffer, and
\* whose loops and start() have ended
StopUnwindsWitness ==
    /\ stop_pc = "done"
    /\ start_pc = "returned"
    /\ rx_pc = "done" /\ drain_pc = "done" /\ stats_pc = "done"
    /\ emitted # <<>>
    /\ buffer_at_stop # <<>>

\* C8: once stop() has completed the read buffer is empty, and no frame is
\* cut from the bytes that were in the buffer when stop() was called.
StopDiscardsBuffer ==
    stop_pc = "done" => (read_buffer = <<>> /\ Len(emitted) = emitted_at_stop)

\* C9: every frame cut from the buffer ends at a line delimiter when the
\* protocol is text, and holds a whole number of samples when it is binary.
FramesFollowProtocol ==
    \A i \in 1..Len(emitted) :
        IF protocol = "ascii"
        THEN IsDelimiter(emitted[i][Len(emitted[i])])
        ELSE Len(emitted[i]) % float32_packet_size = 0

\* The tolerance of the squared norm, in fixed-point units.  Each fixed-point
\* operation rounds by up to one unit (1e-6), where a double rounds by 1e-16;
\* the tolerance covers the rounding that normalize, Mul and Sqrt accumulate.
NormTol == 16

DegenerateInputFallsBack ==
    [][(fcalls' = fcalls + 1 /\ QNorm(Val(fin')) = 0) => QNorm(Val(fout')) # 0]_vars

\* C12: from one call of filter_quaternion to the next none of filter_count,
\* drift_corrections_applied and reset_counter decreases.
CountersNeverDecrease ==
    [][fcalls' = fcalls + 1 =>
          /\ filt'.filter_count >= filt.filter_count
          /\ filt'.drift_corrections_applied >= filt.drift_corrections_applied
          /\ filt'.reset_counter >= filt.reset_counter]_vars

\* The readings of chunk n of the frame in the order of the decoder, and the
\* first of them whose magnitude lies in [0.1, 2.0]
ChunkReadings(n) ==
    LET i == (n - 1) * binary_quaternion_size + 1
        le == unpack_reading(bin_in, i)
    IN  <<le, unpack_reading_be(bin_in, i), reading_xyzw(le)>>

FirstInRange(readings) ==
    LET K == {k \in 1..Len(readings) : binary_magnitude_ok(readings[k])}
    IN  IF K = {} THEN <<>> ELSE <<readings[CHOOSE k \in K : \A j \in K : k <= j].q>>

RECURSIVE ChosenUpTo(_)
ChosenUpTo(n) == IF n = 0 THEN <<>> ELSE ChosenUpTo(n - 1) \o FirstInRange(ChunkReadings(n))

\* C13: the binary decoder returns, chunk by chunk, the first reading among
\* little-endian (w,x,y,z), big-endian (w,x,y,z) and little-endian (x,y,z,w)
\* whose magnitude lies in [0.1, 2.0], and nothing for a chunk that has none.
BinaryFirstReading ==
    bin_done => bin_out = ChosenUpTo(Len(bin_in) \div binary_quaternion_size)

\* A frame whose second chunk is out of range little-endian and is returned
\* with its big-endian values
BinaryFirstReadingWitness ==
    /\ bin_done
    /\ Len(bin_in) > 2 * binary_quaternion_size
    /\ ~binary_magnitude_ok(ChunkReadings(2)[1])
    /\ binary_magnitude_ok(ChunkReadings(2)[2])
    /\ Len(bin_out) = 2
    /\ bin_out[2] = ChunkReadings(2)[2].q
    /\ bin_out[2] = Quat(600000, 0, 800000, 0)


\* The distance between the roll of the output and the roll of the reference
RollDistance ==
    Abs(WrapPi(to_euler_angles(Val(fout)).roll
               - to_euler_angles(Val(filt.reference_quaternion)).roll))

\* The drift of the roll of scripts "drift" and "wrap" in one period of the
\* periodic reset
RollDriftBound == reset_interval * 175

\* C14: while the roll of the input grows by 0.01 degree per sample with pitch
\* and yaw fixed, the roll of the output stays within a bounded distance of
\* the roll of the reference: within a right angle, and within the drift of
\* one reset period while the roll is away from +-180 degrees.
RollDriftBounded ==
    (script \in {"drift", "wrap"} /\ ~IsNone(fout) /\ ~IsNone(filt.reference_quaternion))
        => /\ RollDistance <= HalfPi
           /\ script = "drift" => RollDistance <= RollDriftBound

\* C15: with caching enabled, two conversions of the same raw bytes by one
\* processor return equal results, whatever was converted before and between.
SameBytesSameResult ==
    (dp.enable_caching /\ dp_script # "formats") =>
        \A i, j \in 1..Len(dp_log) :
            dp_log[i].raw_data = dp_log[j].raw_data => dp_log[i].result = dp_log[j].result

\* C16: in binary mode with the default configuration (caching and filtering
\* enabled) a conversion returns one value for every whole four bytes of the
\* raw data, in their order.
BinaryOneValuePerGroup ==
    (dp.data_format = "binary" /\ dp.enable_caching /\ dp.enable_filtering
        /\ dp_script # "formats") =>
        \A i \in 1..Len(dp_log) :
            dp_log[i].result = Some(convert_binary_data(dp_log[i].raw_data))

\* C17: one drain step with a delimiter in the buffer removes the prefix up
\* to and including the last delimiter and dispatches it as one batch, the
\* bytes after it staying; with no delimiter and more than 1000 bytes it
\* dispatches the whole buffer and empties it; otherwise it dispatches
\* nothing and leaves the buffer as it is.
DrainRule ==
    [][(DrainIterate /\ process_loop_condition(running)) =>
          IF \E i \in 1..Len(read_buffer) : IsDelimiter(read_buffer[i])
          THEN \E n \in 1..Len(read_buffer) :
                  /\ IsDelimiter(read_buffer[n])
                  /\ \A j \in (n + 1)..Len(read_buffer) : ~IsDelimiter(read_buffer[j])
                  /\ emitted' = Append(emitted, SubSeq(read_buffer, 1, n))
                  /\ read_buffer' = SubSeq(read_buffer, n + 1, Len(read_buffer))
          ELSE IF Len(read_buffer) > 1000
               THEN emitted' = Append(emitted, read_buffer) /\ read_buffer' = <<>>
               ELSE emitted' = emitted /\ read_buffer' = read_buffer]_vars

DrainRuleWitness ==
    /\ Len(emitted) = 1
    /\ emitted[1] = Bytes(<<"1", ",", "0", ",", "0", ",", "0", "\n",
                            "0", ",", "1", ",", "0", ",", "0", "\n">>)
    /\ read_buffer = Bytes(<<"0", ",">>)

\* C18 as stated: the read buffer changes only in a step that holds
\* buffer_lock, and while the lock is held no data callback begins and none
\* is executing.
BufferLockExcludesCallback ==
    [][/\ read_buffer' # read_buffer => HoldsBufferLock
       /\ HoldsBufferLock =>
             /\ delivered' = delivered
             /\ \A i \in 1..Len(cbs) : cbs[i].st # "running"]_vars

\* C18 as amended: the read buffer changes only in a step that holds
\* buffer_lock, and a step that holds the lock calls no data callback: no
\* callback begins or advances in it, and a batch it dispatches is left as a
\* task that has not begun.  (A plain callback that runs on a worker thread
\* may be executing meanwhile.)
BufferLockCallsNoCallback ==
    [][/\ read_buffer' # read_buffer => HoldsBufferLock
       /\ HoldsBufferLock =>
             /\ delivered' = delivered
             /\ \A i \in 1..Len(cbs) : cbs'[i] = cbs[i]
             /\ \A i \in (Len(cbs) + 1)..Len(cbs') : cbs'[i].st = "task"]_vars

BufferLockWitness ==
    /\ cb_kind = "plain"
    /\ Len(cbs) = 2
    /\ cbs[1].st = "running"
    /\ cbs[2].st = "task"
    /\ read_buffer = Bytes(<<"0", ",">>)

\* C19: counting the filter calls after the seed call, the periodic reset
\* happens on exactly every 1000th call, and at the end of such a call the
\* reference is the corrected estimate it was replaced with (the newest entry
\* of the history).  A call has made the periodic reset exactly when it
\* leaves reset_counter at 0.
HardResetCadence ==
    [][(fcalls' = fcalls + 1 /\ filt.initialized) =>
          /\ filt'.reset_counter = 0 <=> filt'.filter_count % 1000 = 0
          /\ filt'.reset_counter = 0 =>
                filt'.reference_quaternion =
                    Some(filt'.quaternion_history[Len(filt'.quaternion_history)])]_vars

\* C20: once the reference is set, a filter call changes it only (a) with
\* the periodic reset, or (b) on a reference-update tick, every 50th call
\* after the seed, when the drift history holds at least 10 samples and the
\* variance of its last 10 is below the stability threshold, and then to the
\* SLERP of the reference 1% toward the output of the call.
ReferenceMovesOnCadence ==
    [][(/\ fcalls' = fcalls + 1
        /\ ~IsNone(filt.reference_quaternion)
        /\ filt'.reference_quaternion # filt.reference_quaternion) =>
          \/ filt'.reset_counter = 0
          \/ /\ filt'.filter_count % 50 = 0
             /\ Len(filt'.drift_history) >= 10
             /\ Var(LastN(filt'.drift_history, 10)) < drift_threshold \div 10
             /\ filt'.reference_quaternion =
                    Some(quaternion_slerp(Val(filt.reference_quaternion), Val(fout'), 10000))]_vars

ReferenceMovesWitness ==
    /\ script = "drift"
    /\ filt.filter_count = 50
    /\ filt.reference_counter = 0
    /\ Len(filt.drift_history) >= 10
    /\ Var(LastN(filt.drift_history, 10)) < drift_threshold \div 10
    /\ ~IsNone(filt.reference_quaternion)
    /\ filt.reference_quaternion # fout

(***************************************************************************)
(* The Adaptive variant's parameters                                       *)
(***************************************************************************)
\* Mean stabilities at which the linear map of _adapt_parameters is compared
StabilityLevels == {0, 250000, 500000, 750000, Scale}

\* The filter after _adapt_parameters with a full window of scores m
AdaptedAt(m) ==
    adapt_parameters([filt EXCEPT !.stability_history = [i \in 1..stability_window |-> m]])

\* C21: in the Adaptive variant every stability score lies in [0,1]; while
\* the stability window holds fewer than 10 scores alpha and gyro_weight
\* keep their constructor values; with 10 scores both are
\* range_min + (range_max - range_min) * mean(window), lie within their
\* ranges and are non-decreasing in the mean; accel_weight = 1 - gyro_weight.
AdaptiveParametersFollowStability ==
    filt.adaptive =>
        /\ \A i \in 1..Len(filt.stability_history) :
               filt.stability_history[i] >= 0 /\ filt.stability_history[i] <= Scale
        /\ Len(filt.stability_history) <= stability_window
        /\ Len(filt.stability_history) < stability_window =>
               /\ filt.alpha = AdaptiveComplementaryFilter.alpha
               /\ filt.gyro_weight = AdaptiveComplementaryFilter.gyro_weight
        /\ Len(filt.stability_history) = stability_window =>
               /\ filt.alpha = alpha_min +
                      Mul(alpha_max - alpha_min, Mean(filt.stability_history))
               /\ filt.gyro_weight = gyro_min +
                      Mul(gyro_max - gyro_min, Mean(filt.stability_history))
               /\ filt.alpha >= alpha_min /\ filt.alpha <= alpha_max
               /\ filt.gyro_weight >= gyro_min /\ filt.gyro_weight <= gyro_max
               /\ \A m \in StabilityLevels :
                      /\ m <= Mean(filt.stability_history) =>
                             /\ AdaptedAt(m).alpha <= filt.alpha
                             /\ AdaptedAt(m).gyro_weight <= filt.gyro_weight
                      /\ m >= Mean(filt.stability_history) =>
                             /\ AdaptedAt(m).alpha >= filt.alpha
                             /\ AdaptedAt(m).gyro_weight >= filt.gyro_weight
        /\ filt.accel_weight = Scale - filt.gyro_weight

\* A noisy stream has filled the window: the mean stability is strictly
\* between 0 and 1 and both parameters are strictly inside their ranges.
AdaptiveParametersWitness ==
    /\ filt.adaptive
    /\ Len(filt.stability_history) = stability_window
    /\ Mean(filt.stability_history) > 0
    /\ Mean(filt.stability_history) < Scale
    /\ filt.alpha > alpha_min /\ filt.alpha < alpha_max
    /\ filt.gyro_weight > gyro_min /\ filt.gyro_weight < gyro_max
    /\ fop = "later"

(***************************************************************************)
(* The rate estimate                                                       *)
(***************************************************************************)
\* The RateEstimate: detected rate, target render rate, interpolation factor
RateEstimate(e) == <<e.detected_data_rate, e.target_render_rate, e.interpolation_factor>>

\* _detect_data_rate has nothing to go by: fewer than 10 timestamps, or no
\* interval in [1 ms, 1 s] among the last 50
NothingToMeasure(e) ==
    \/ Len(e.data_timestamps) < min_timestamps
    \/ RateIntervals(LastN(e.data_timestamps, recent_count)) = <<>>

\* C22: the RateEstimate changes only at a re-estimation, and two
\* re-estimations are at least 2 s of wall-clock time apart; a re-estimation
\* with fewer than 10 timestamps or no interval in [1 ms, 1 s] among the
\* last 50 leaves the estimate unchanged; otherwise the first non-zero
\* measurement is adopted as is and later ones are blended as
\* 0.3 * new + 0.7 * old; target rate = 2.5 * detected rate after every step.
RateEstimateOnlyReestimated ==
    [][LET reestimated == est'.last_rate_update # est.last_rate_update
           new_rate == detect_data_rate(est.data_timestamps)
       IN  /\ RateEstimate(est') # RateEstimate(est) => reestimated
           /\ reestimated =>
                  est'.last_rate_update - est.last_rate_update
                      >= rate_update_interval * TicksPerSecond
           /\ (reestimated /\ NothingToMeasure(est)) => RateEstimate(est') = RateEstimate(est)
           /\ (reestimated /\ ~NothingToMeasure(est)) =>
                  /\ new_rate > 0
                  /\ est.detected_data_rate = 0 => est'.detected_data_rate = new_rate
                  /\ est.detected_data_rate # 0 =>
                         est'.detected_data_rate =
                             Mul(rate_alpha, new_rate)
                             + Mul(Scale - rate_alpha, est.detected_data_rate)
           /\ est.detected_data_rate > 0 => est'.detected_data_rate > 0
           /\ last_new_rate' > 0 => est'.detected_data_rate > 0
           /\ est'.target_render_rate = Mul(est'.detected_data_rate, render_rate_factor)]_vars

\* A second re-estimation, 2 s or more after the first, has blended its
\* measurement into the estimate: the estimate is neither zero nor the
\* new measurement.
RateBlendedWitness ==
    /\ nupdates = 2
    /\ last_new_rate > 0
    /\ est.detected_data_rate > 0
    /\ est.detected_data_rate # last_new_rate
    /\ est.last_rate_update = ClockReading(rnow)
    /\ est.target_render_rate = Mul(est.detected_data_rate, render_rate_factor)

(***************************************************************************)
(* The gyro prediction of the full fusion                                  *)
(***************************************************************************)
\* C23: in a fusion call with inertial vectors the gyro prediction, made
\* from the previous filtered quaternion, the angular rate and dt, is a unit
\* quaternion, and with zero angular rate it is the previous filtered
\* quaternion.
GyroPredictionAdvances ==
    [][(fcalls' = fcalls + 1 /\ script \in SensorScripts /\ filt.initialized) =>
          Bind(integrate_gyroscope(Val(filt.filtered_quaternion), ScriptGyro(script),
                                   clock' - Val(filt.last_time)),
               LAMBDA gyro_quat :
                   /\ Abs(Norm2(gyro_quat) - Scale) <= NormTol
                   /\ ScriptGyro(script) = <<0, 0, 0>> =>
                          gyro_quat = Val(filt.filtered_quaternion))]_vars

(***************************************************************************)
(* Conservation and order of the bytes of the ingestion channel            *)
(***************************************************************************)
RECURSIVE Concat(_)
\* The concatenation of a sequence of byte strings
Concat(chunks) == IF chunks = <<>> THEN <<>> ELSE Head(chunks) \o Concat(Tail(chunks))

\* The bytes read from the port so far: the batches dispatched, the buffer
\* and the bytes of a read not yet appended
BytesRead == Concat(emitted) \o read_buffer \o read_result

\* While the channel runs, the batches dispatched, the buffer and the bytes
\* of a read not yet appended are, in this order, the first bytes the device
\* sends; the rest waits in the port, was dropped by a close of the port or
\* is still to be sent.
BytesConserved ==
    running =>
        \E w \in Wires :
            /\ w[1] = protocol
            /\ Len(BytesRead) <= Len(Concat(w[2]))
            /\ BytesRead = SubSeq(Concat(w[2]), 1, Len(BytesRead))
            /\ port_open =>
                   Concat(w[2]) = BytesRead \o in_waiting \o Concat(wire)

\* While the channel runs, the batches whose callback has begun to execute
\* are the first batches dispatched, in dispatch order.
StartsInDispatchOrder ==
    running =>
        /\ Len(delivered) <= Len(emitted)
        /\ delivered = SubSeq(emitted, 1, Len(delivered))

\* C24: while the channel runs, under any interleaving of the receive task
\* and the drain task, the batches dispatched so far followed by the buffer
\* are the bytes read from the port so far, none lost, duplicated or
\* reordered, and data-callback invocations start in dispatch order.
ConservedAndInOrder == BytesConserved /\ StartsInDispatchOrder

(***************************************************************************)
(* The diagnostic counters of the decoder                                  *)
(***************************************************************************)
\* C25: after any sequence of process_raw_data calls, in any format and
\* with validation on or off, total_packets = valid_packets +
\* invalid_packets, no counter ever decreases, and each call adds the number
\* of samples it returns to valid_packets, so that valid_packets is the
\* number of samples returned so far.
DecoderCountersConsistent ==
    [][/\ proc'.total_packets >= proc.total_packets
       /\ proc'.valid_packets >= proc.valid_packets
       /\ proc'.invalid_packets >= proc.invalid_packets
       /\ proc'.total_packets = proc'.valid_packets + proc'.invalid_packets
       /\ nframes' = nframes + 1 => proc'.valid_packets = proc.valid_packets + Len(out')
       /\ nframes' = nframes => proc'.valid_packets = proc.valid_packets]_vars

(***************************************************************************)
(* reset() against a new filter                                            *)
(***************************************************************************)
\* The last call on filter f made the periodic hard reset: reset_counter is
\* back at 0 on a filter that has processed a sample since its seed.
HardResetFired(f) == f.filter_count > 0 /\ f.reset_counter = 0

\* C26: after reset(), the filter behaves as a new filter with the same
\* parameters given the same calls: the same outputs, the same
\* reference-update ticks and the periodic hard reset on the same calls.
ResetEqualsFresh ==
    (~IsNone(twin) /\ fop # "reset") =>
        /\ Val(twin).q = fout
        /\ Val(twin).f.filter_count = filt.filter_count
        /\ Val(twin).f.reference_counter = filt.reference_counter
        /\ HardResetFired(Val(twin).f) <=> HardResetFired(filt)

(***************************************************************************)
(* The step fractions of the drift corrections                             *)
(***************************************************************************)
\* dt of filter_quaternion on filter f, called with dtArg at current_time
CallDt(f, dtArg, current_time) ==
    IF ~IsNone(dtArg) THEN Val(dtArg)
    ELSE IF ~IsNone(f.last_time) THEN current_time - Val(f.last_time)
    ELSE DefaultDt

\* The roll correction of a call of filter_quaternion without inertial
\* vectors on the initialized filter f: the filter and the quaternion
\* _apply_roll_drift_suppression is given (before), and what it returns.
RollStage(f, raw_quaternion, dt, current_time) ==
    Bind(IF f.adaptive
         THEN adapt_parameters([f EXCEPT !.stability_history =
                  AppendMax(@, assess_data_stability(f, raw_quaternion), stability_window)])
         ELSE f, LAMBDA fa :
    Bind(simplified_complementary_filter([fa EXCEPT !.last_time = Some(current_time)],
                                         normalize(raw_quaternion), dt), LAMBDA fused :
    Bind(apply_drift_suppression(fused.f, fused.q, dt), LAMBDA drift_corrected :
        [f |-> drift_corrected.f,
         before |-> drift_corrected.q,
         after |-> apply_roll_drift_suppression(drift_corrected.f, drift_corrected.q, dt)])))

\* The signed deviation of the roll of q from the roll of the reference of f
RollDeviation(f, q) ==
    WrapPi(to_euler_angles(q).roll - to_euler_angles(Val(f.reference_quaternion)).roll)

\* C27: for every dt of a call, the step fractions strength * dt of the
\* generic, the roll and the yaw correction are at most 1, and a roll
\* correction leaves the signed roll deviation from the reference with its
\* sign and no larger in magnitude.
CorrectionsNeverOvershoot ==
    [][(fcalls' = fcalls + 1 /\ script = "pause" /\ filt.initialized) =>
          Bind(CallDt(filt, ScriptDt(script, fcalls), clock'), LAMBDA dt :
              /\ Mul(drift_correction_strength, dt) <= Scale
              /\ Mul(roll_correction_strength, dt) <= Scale
              /\ Mul(yaw_correction_strength, dt) <= Scale
              /\ Bind(RollStage(filt, Val(fin'), dt, clock'), LAMBDA st :
                     st.after # st.before =>
                         /\ Sgn(RollDeviation(st.f, st.after))
                                = Sgn(RollDeviation(st.f, st.before))
                         /\ Abs(RollDeviation(st.f, st.after))
                                <= Abs(RollDeviation(st.f, st.before))))]_vars

(***************************************************************************)
(* The conversion cache and the data format                                *)
(***************************************************************************)
RECURSIVE IsSubsequence(_, _)
\* The values of kept are values of all, in their order: what filter_data
\* can make of all
IsSubsequence(kept, all) ==
    IF kept = <<>> THEN TRUE
    ELSE IF all = <<>> THEN FALSE
    ELSE IF Head(kept) = Head(all) THEN IsSubsequence(Tail(kept), Tail(all))
    ELSE IsSubsequence(kept, Tail(all))

\* C28: a value returned by _convert_data_format is a conversion of the
\* given bytes under the data_format configured at that call (the values of
\* that format's converter, those the filter dropped left out), also when
\* the bytes were converted before under another data_format.
ResultFollowsConfiguredFormat ==
    \A i \in 1..Len(dp_log) :
        Bind(converted_by_format(dp_log[i].data_format, dp_log[i].raw_data),
             LAMBDA converted :
                 IF IsNone(converted) THEN IsNone(dp_log[i].result)
                 ELSE /\ ~IsNone(dp_log[i].result)
                      /\ IsSubsequence(Val(dp_log[i].result), Val(converted)))

(***************************************************************************)
(* A port that is closed without stop()                                    *)
(***************************************************************************)
\* The port of a running channel is not open any more
PortLost == start_pc = "gather" /\ running /\ ~port_open

\* C29: when the port handle stops being open while the channel is running
\* and stop() is never called, the receive loop exits, the drain loop and
\* the statistics loop terminate, and start() returns.
PortLossUnwinds ==
    PortLost ~>
        \/ stop_pc # "init"
        \/ (rx_pc = "done" /\ drain_pc = "done" /\ stats_pc = "done"
                /\ start_pc = "returned")

(***************************************************************************)
(* The third reading of the binary decoder                                 *)
(***************************************************************************)
RECURSIVE FirstTwoUpTo(_)
\* The candidates of a decoder that tries the little-endian and the
\* big-endian (w,x,y,z) readings only
FirstTwoUpTo(n) ==
    IF n = 0 THEN <<>>
    ELSE FirstTwoUpTo(n - 1) \o FirstInRange(SubSeq(ChunkReadings(n), 1, 2))

\* C30: for every 16-byte chunk the candidate emitted by the binary decoder
\* is the little-endian (w,x,y,z) reading, the big-endian (w,x,y,z) reading
\* or nothing: the little-endian (x,y,z,w) reading is never the one emitted.
ThirdReadingNeverEmitted ==
    bin_done => bin_out = FirstTwoUpTo(Len(bin_in) \div binary_quaternion_size)
====
